---- MODULE Spec2Model ----
(***************************************************************************)
(* Model of the textfile collector scripts.  The first part models         *)
(* zpool_status_parse of zfs_zpool.py: the text of `zpool status -p` is a  *)
(* sequence of lines, a line is its leading whitespace length and its      *)
(* whitespace separated tokens, and a token (like every string) is a       *)
(* sequence of one-character strings.  The regular expressions of the      *)
(* parser are modelled by what they match on such lines.                   *)
(***************************************************************************)
EXTENDS Integers, Sequences, FiniteSets, TLC

\* ------------------------------------------------------------------ bounds
\* Largest number of `pool:` sections in an input.
MaxPools == 3
\* Largest number of device lines below the header of a config section.
MaxDev == 3
\* Longest of the short digit strings handed to parse_si_unit.
MaxDigits == 2
\* Largest number of <number><suffix> groups in a compact duration.
MaxGroups == 2
\* Largest number of metrics one metric group registers.
MaxMetrics == 1
\* Largest number of processes under /proc.
MaxProcs == 2
\* Largest number of lines of a maps file.
MaxLines == 2

MaxCtl == 2

MaxStatuses == 2

MaxDisks == 2

MaxRows == 3

\* ----------------------------------------------------------------- strings
DigitChars == <<"0", "1", "2", "3", "4", "5", "6", "7", "8", "9">>

Digits == {DigitChars[i] : i \in 1..10}

DigitVal(c) == CHOOSE v \in 0..9 : DigitChars[v + 1] = c

\* The character of a one-digit number.
DigitChar(n) == DigitChars[n + 1]

\* Characters of the model's alphabet that \w does not match.
NonWordChars == {":", "/", " ", "-", "."}

\* str.isdecimal: non-empty and every character a decimal digit.
isdecimal(s) == Len(s) > 0 /\ \A i \in 1..Len(s) : s[i] \in Digits

\* The value of a string of decimal digits (int(s) / float(s) on such a string).
RECURSIVE DecimalValue(_)
DecimalValue(s) ==
  IF s = <<>> THEN 0
  ELSE DecimalValue(SubSeq(s, 1, Len(s) - 1)) * 10 + DigitVal(s[Len(s)])

\* Python's seq[0:stop]: a negative stop counts from the end.
PySliceTo(s, stop) ==
  IF stop >= 0 THEN SubSeq(s, 1, IF stop < Len(s) THEN stop ELSE Len(s))
  ELSE SubSeq(s, 1, IF Len(s) + stop > 0 THEN Len(s) + stop ELSE 0)

\* Python's seq[start:] for start >= 0.
PySliceFrom(s, start) == SubSeq(s, start + 1, Len(s))

\* str.startswith
startswith(s, prefix) ==
  Len(s) >= Len(prefix) /\ SubSeq(s, 1, Len(prefix)) = prefix

\* s.split(sep)[-1]: what follows the last occurrence of the character sep.
LastSegment(s, sep) ==
  LET at == {i \in 1..Len(s) : s[i] = sep}
      last == IF at = {} THEN 0 ELSE CHOOSE i \in at : \A j \in at : j <= i
  IN SubSeq(s, last + 1, Len(s))

\* Tokens joined by one blank.
RECURSIVE JoinTokens(_)
JoinTokens(toks) ==
  IF toks = <<>> THEN <<>>
  ELSE IF Len(toks) = 1 THEN toks[1]
  ELSE toks[1] \o <<" ">> \o JoinTokens(Tail(toks))

\* Optional values: None, or a one-element sequence holding the value.
None == <<>>

Some(v) == <<v>>

\* The words of the report.
W_pool == <<"p", "o", "o", "l">>
W_state == <<"s", "t", "a", "t", "e">>
W_scan == <<"s", "c", "a", "n">>
W_config == <<"c", "o", "n", "f", "i", "g">>
W_errors == <<"e", "r", "r", "o", "r", "s">>
W_spares == <<"s", "p", "a", "r", "e", "s">>
W_was == <<"w", "a", "s", " ">>
W_scrub == <<"s", "c", "r", "u", "b">>
W_repaired == <<"r", "e", "p", "a", "i", "r", "e", "d">>
W_resilvered == <<"r", "e", "s", "i", "l", "v", "e", "r", "e", "d">>
W_in == <<"i", "n">>
W_with == <<"w", "i", "t", "h">>
W_on == <<"o", "n">>
W_none == <<"n", "o", "n", "e">>

\* A line: the length of its leading whitespace and its tokens.
Line(ws, toks) == [ws |-> ws, toks |-> toks]

IsBlank(l) == l.toks = <<>>

\* ------------------------------------------------- zpool_status_parse: regexes
\* The length of the key of a line that matches ^\s*(\w+): (0 when it does not):
\* the first token starts with word characters followed by a colon.
KeyLen(l) ==
  IF IsBlank(l) THEN 0
  ELSE LET t == l.toks[1]
           colon == {c \in 2..Len(t) :
                       t[c] = ":" /\ \A j \in 1..(c - 1) : t[j] \notin NonWordChars}
       IN IF colon = {} THEN 0 ELSE (CHOOSE c \in colon : TRUE) - 1

IsKeyLine(l) == KeyLen(l) > 0

Key(l) == SubSeq(l.toks[1], 1, KeyLen(l))

\* What follows the colon on the key's own line.
KeyLineRest(l) ==
  LET t == l.toks[1]
      after == SubSeq(t, KeyLen(l) + 2, Len(t))
  IN (IF after = <<>> THEN <<>> ELSE <<after>>) \o Tail(l.toks)

\* The pool regex without its ^\s* anchor: any key that ends in pool.
IsPoolLineUnanchored(l) ==
  /\ IsKeyLine(l)
  /\ Len(Key(l)) >= Len(W_pool)
  /\ SubSeq(Key(l), Len(Key(l)) - Len(W_pool) + 1, Len(Key(l))) = W_pool

\* A line that matches ^\s*pool:\s+ .
IsPoolLine(l) == IsKeyLine(l) /\ Key(l) = W_pool

SetMin(S) == CHOOSE x \in S : \A y \in S : x <= y

SetMax(S) == CHOOSE x \in S : \A y \in S : y <= x

\* The end of one match of the pool regex that starts at pool line s: the greedy
\* .+ runs to the last place where the lookahead ^\s*pool:\s+ holds, and to the
\* end of the input (.+\Z) when there is none.
BlockEnd(content, s) ==
  LET later == {e \in (s + 1)..Len(content) : IsPoolLine(content[e])}
  IN IF later = {} THEN Len(content) ELSE SetMax(later) - 1

\* Where a match whose pool line is s starts: ^\s* also takes the blank lines
\* right above the pool line (not before from, where the scan resumes).
BlockStart(content, from, s) ==
  SetMin({b \in from..s : \A j \in b..(s - 1) : IsBlank(content[j])})

\* re.findall of the pool regex: the blocks, scanning from line `from`.  (Every
\* pool line of the model names its pool, so the .+ after pool:\s+ has its
\* character.)
RECURSIVE FindBlocks(_, _)
FindBlocks(content, from) ==
  LET pools == {s \in from..Len(content) : IsPoolLine(content[s])}
  IN IF pools = {} THEN <<>>
     ELSE LET s == SetMin(pools)
              e == BlockEnd(content, s)
          IN <<SubSeq(content, BlockStart(content, from, s), e)>>
               \o FindBlocks(content, e + 1)

\* value.strip() of a value given as lines: the trailing blank lines go (the
\* leading whitespace went with the \s* before the value).
RECURSIVE StripLines(_)
StripLines(lines) ==
  IF lines # <<>> /\ IsBlank(lines[Len(lines)])
  THEN StripLines(SubSeq(lines, 1, Len(lines) - 1))
  ELSE lines

\* re.findall of ^\s*(\w+):\s*(.+?(?=^\s*\w+:)|.*\Z) on a block, from line i: the
\* (key, stripped value) pairs.  The \s* after the colon runs over line ends, so
\* the value of a key with nothing on its own line starts at the next non-blank
\* line, a key line included; the lazy .+? then stops before the next key line.
RECURSIVE MatchedPairs(_, _)
MatchedPairs(lines, i) ==
  IF i > Len(lines) THEN <<>>
  ELSE IF ~IsKeyLine(lines[i]) THEN MatchedPairs(lines, i + 1)
  ELSE LET rest == KeyLineRest(lines[i])
           nonblank == {j \in (i + 1)..Len(lines) : ~IsBlank(lines[j])}
           first == IF rest # <<>> THEN i
                    ELSE IF nonblank = {} THEN 0 ELSE SetMin(nonblank)
           keys == {e \in (first + 1)..Len(lines) : IsKeyLine(lines[e])}
           end == IF keys = {} THEN Len(lines) ELSE SetMin(keys) - 1
           head == IF rest # <<>> THEN rest ELSE lines[first].toks
       IN IF first = 0
          THEN <<[key |-> Key(lines[i]), value |-> <<>>]>>
          ELSE <<[key |-> Key(lines[i]),
                  value |-> StripLines(<<Line(0, head)>>
                                         \o SubSeq(lines, first + 1, end))]>>
                 \o MatchedPairs(lines, end + 1)

\* dict(pairs).get(key, ''): the last pair of a key wins.
DictGet(pairs, key) ==
  LET at == {i \in 1..Len(pairs) : pairs[i].key = key}
  IN IF at = {} THEN <<>> ELSE pairs[SetMax(at)].value

\* Whether the device regex matches a line: one, two, five or more columns.
ConfigLineMatches(l) == Len(l.toks) \in {1, 2} \/ Len(l.toks) >= 5

\* The groups of the device regex on a matching line ('' is <<>>).
ConfigGroups(l) ==
  LET n == Len(l.toks)
  IN <<l.ws,
       l.toks[1],
       IF n >= 2 THEN l.toks[2] ELSE <<>>,
       IF n >= 5 THEN l.toks[3] ELSE <<>>,
       IF n >= 5 THEN l.toks[4] ELSE <<>>,
       IF n >= 5 THEN l.toks[5] ELSE <<>>,
       IF n >= 6 THEN JoinTokens(SubSeq(l.toks, 6, n)) ELSE <<>> >>

\* re.findall of the device regex on the config value: one tuple per matching line.
FindConfigs(value) ==
  LET hit == SelectSeq(value, ConfigLineMatches)
  IN [i \in 1..Len(hit) |-> ConfigGroups(hit[i])]

\* ------------------------------------------ zpool_status_parse: device records
\* int(x) raises ValueError: x is not a string of decimal digits.
IntRaises(x) == ~isdecimal(x)

\* Whether building the ZpoolConfig of a tuple raises (int() of a non-empty
\* read, write or checksum column that is no integer).
ConfigRaises(config) ==
  \E col \in 4..6 : config[col] # <<>> /\ IntRaises(config[col])

\* The record with a blank error column read as 0.
ZpoolConfigBlankIsZero(config) ==
  [name |-> config[2],
   path |-> <<>>,
   state |-> config[3],
   read |-> Some(IF config[4] # <<>> THEN DecimalValue(config[4]) ELSE 0),
   write |-> Some(IF config[5] # <<>> THEN DecimalValue(config[5]) ELSE 0),
   checksum |-> Some(IF config[6] # <<>> THEN DecimalValue(config[6]) ELSE 0),
   comment |-> IF config[7] # <<>> THEN Some(config[7]) ELSE None,
   is_spare |-> FALSE,
   indent |-> 0,
   leading_whitespace |-> config[1]]

ZpoolConfig(config) ==
  [name |-> config[2],
   path |-> <<>>,
   state |-> config[3],
   read |-> IF config[4] # <<>> THEN Some(DecimalValue(config[4])) ELSE None,
   write |-> IF config[5] # <<>> THEN Some(DecimalValue(config[5])) ELSE None,
   checksum |-> IF config[6] # <<>> THEN Some(DecimalValue(config[6])) ELSE None,
   comment |-> IF config[7] # <<>> THEN Some(config[7]) ELSE None,
   is_spare |-> FALSE,
   indent |-> 0,
   leading_whitespace |-> config[1]]

\* The tuples the records are built from: configs[1:], the header line dropped.
DeviceTuples(configs) == Tail(configs)

\* Whether the list comprehension over configs[1:] raises ValueError.
BuildRaises(configs) ==
  \E i \in 1..Len(DeviceTuples(configs)) : ConfigRaises(DeviceTuples(configs)[i])

BuildConfigs(configs) ==
  [i \in 1..Len(DeviceTuples(configs)) |-> ZpoolConfig(DeviceTuples(configs)[i])]

\* The spare flag not carried from the record before.
SpareFlagOwnOnly(acc, config) == config.name = W_spares

\* The spare flag of a record, given the records folded so far.
SpareFlag(acc, config) ==
  config.name = W_spares
    \/ (IF Len(acc) > 0 THEN acc[Len(acc)].is_spare ELSE FALSE)

\* reduce(lambda acc, config: acc + [replace(config, is_spare=...)], configs, [])
RECURSIVE MarkSpares(_)
MarkSpares(configs) ==
  IF configs = <<>> THEN <<>>
  ELSE LET acc == MarkSpares(SubSeq(configs, 1, Len(configs) - 1))
           config == configs[Len(configs)]
       IN Append(acc, [config EXCEPT !.is_spare = SpareFlag(acc, config)])

\* int(len(config.leading_whitespace) / 2)
IndentOf(leading_whitespace) == leading_whitespace \div 2

SizeIndent(configs) ==
  [i \in 1..Len(configs) |->
     [configs[i] EXCEPT !.indent = IndentOf(configs[i].leading_whitespace)]]

\* str(config.comment).startswith('was '): None prints as 'None'.
CommentIsWas(comment) == comment # None /\ startswith(comment[1], W_was)

\* The name taken as all that follows 'was ', not split at '/'.
NormalizedNameUnsplit(config) ==
  IF CommentIsWas(config.comment)
  THEN PySliceFrom(config.comment[1], 4)
  ELSE config.name

\* config.comment[4:].split('/')[-1] if the comment starts with 'was ', else the name.
NormalizedName(config) ==
  IF CommentIsWas(config.comment)
  THEN LastSegment(PySliceFrom(config.comment[1], 4), "/")
  ELSE config.name

NormalizeNames(configs) ==
  [i \in 1..Len(configs) |-> [configs[i] EXCEPT !.name = NormalizedName(configs[i])]]

\* The path cut one element too late.
PathOfOffByOne(acc, config, offset) ==
  (IF Len(acc) > 0 THEN PySliceTo(acc[Len(acc)].path, config.indent - offset + 1)
   ELSE <<>>) \o <<config.name>>

\* The path cut from the path of the first record, not of the record before.
PathOfFromFirst(acc, config, offset) ==
  (IF Len(acc) > 0 THEN PySliceTo(acc[1].path, config.indent - offset)
   ELSE <<>>) \o <<config.name>>

\* The path of a record, given the records folded so far.
PathOf(acc, config, offset) ==
  (IF Len(acc) > 0 THEN PySliceTo(acc[Len(acc)].path, config.indent - offset)
   ELSE <<>>) \o <<config.name>>

\* reduce(lambda acc, config: acc + [replace(config, path=...)], configs, [])
RECURSIVE AccumulatePath(_, _)
AccumulatePath(configs, offset) ==
  IF configs = <<>> THEN <<>>
  ELSE LET acc == AccumulatePath(SubSeq(configs, 1, Len(configs) - 1), offset)
           config == configs[Len(configs)]
       IN Append(acc, [config EXCEPT !.path = PathOf(acc, config, offset)])

\* The filter on the spare flag instead of the name.
KeptNotSpare(config) == ~config.is_spare

\* Whether a record stays in the list: config.name != 'spares'.
Kept(config) == config.name # W_spares

\* [replace(config, indent=0, leading_whitespace='') for config in configs
\*  if config.name != 'spares']
DropSpares(configs) ==
  LET kept == SelectSeq(configs, Kept)
  IN [i \in 1..Len(kept) |-> [kept[i] EXCEPT !.indent = 0, !.leading_whitespace = 0]]

\* -------------------------------------------- parse_si_unit, parse_time_duration
\* A result: the exception raised ("none": a normal return) and the value.
Returns(v) == [exc |-> "none", value |-> v]

Raises(e) == [exc |-> e, value |-> <<>>]

\* The keys of SI_UNITS in order of their exponent, and their lower-case forms
\* (value[-1].upper() maps these to the keys).
SI_UNITS == <<"B", "K", "M", "G", "T", "P", "E", "Z", "Y">>

SI_UNITS_lower == <<"b", "k", "m", "g", "t", "p", "e", "z", "y">>

\* An exponent lookup that takes an unknown suffix for a plain number of bytes.
SiExponentOrZero(c) ==
  LET known == {i - 1 : i \in {j \in 1..Len(SI_UNITS) :
                                   SI_UNITS[j] = c \/ SI_UNITS_lower[j] = c}}
  IN IF known = {} THEN {0} ELSE known

\* The exponents of the suffix c: SI_UNITS[c.upper()] (empty: KeyError).
SiExponent(c) ==
  {i - 1 : i \in {j \in 1..Len(SI_UNITS) : SI_UNITS[j] = c \/ SI_UNITS_lower[j] = c}}

\* Python's int has no width and its float is an IEEE double, so the numbers of
\* parse_si_unit are modelled as sequences of limbs in base 2^15, lowest limb
\* first, without a high zero limb (zero is the empty sequence).
Base == 2 ^ 15

RECURSIVE NatTrim(_)
NatTrim(n) ==
  IF n = <<>> THEN <<>>
  ELSE IF n[Len(n)] # 0 THEN n
  ELSE NatTrim(SubSeq(n, 1, Len(n) - 1))

\* n * m + c for a number n and m, c below the base.
RECURSIVE NatMulSmallAdd(_, _, _)
NatMulSmallAdd(n, m, c) ==
  IF n = <<>> THEN (IF c = 0 THEN <<>> ELSE <<c>>)
  ELSE LET t == n[1] * m + c
       IN <<t % Base>> \o NatMulSmallAdd(Tail(n), m, t \div Base)

RECURSIVE NatAdd(_, _, _)
NatAdd(a, b, carry) ==
  IF a = <<>> /\ b = <<>> THEN (IF carry = 0 THEN <<>> ELSE <<carry>>)
  ELSE LET x == IF a = <<>> THEN 0 ELSE a[1]
           y == IF b = <<>> THEN 0 ELSE b[1]
           t == x + y + carry
       IN <<t % Base>> \o NatAdd(IF a = <<>> THEN <<>> ELSE Tail(a),
                                 IF b = <<>> THEN <<>> ELSE Tail(b), t \div Base)

RECURSIVE NatMul(_, _)
NatMul(a, b) ==
  IF b = <<>> THEN <<>>
  ELSE LET rest == NatMul(a, Tail(b))
       IN NatTrim(NatAdd(NatMulSmallAdd(a, b[1], 0),
                         IF rest = <<>> THEN <<>> ELSE <<0>> \o rest, 0))

\* The number a string of decimal digits denotes.
RECURSIVE NatOfDecimal(_)
NatOfDecimal(s) ==
  IF s = <<>> THEN <<>>
  ELSE LET front == NatOfDecimal(SubSeq(s, 1, Len(s) - 1))
       IN NatMulSmallAdd(front, 10, DigitVal(s[Len(s)]))

\* The number of bits of a number, and its bit i (bit 0 is the lowest).
BitLength(n) ==
  IF n = <<>> THEN 0
  ELSE 15 * (Len(n) - 1) + (CHOOSE k \in 1..15 : 2 ^ (k - 1) <= n[Len(n)] /\ n[Len(n)] < 2 ^ k)

NatBit(n, i) == (n[(i \div 15) + 1] \div (2 ^ (i % 15))) % 2

\* The bits of the significand of a double.
MantissaBits == 53

\* The double nearest to a number, ties to even (no number here reaches the
\* largest double, so none becomes inf).
RoundToDouble(n) ==
  IF BitLength(n) <= MantissaBits THEN n
  ELSE LET drop == BitLength(n) - MantissaBits
           half == NatBit(n, drop - 1) = 1
           sticky == \E i \in 0..(drop - 2) : NatBit(n, i) = 1
           up == half /\ (sticky \/ NatBit(n, drop) = 1)
           cut(l) == IF 15 * l <= drop THEN 0
                     ELSE IF 15 * (l - 1) >= drop THEN n[l]
                     ELSE (n[l] \div (2 ^ (drop - 15 * (l - 1)))) * (2 ^ (drop - 15 * (l - 1)))
           kept == [l \in 1..Len(n) |-> cut(l)]
           ulp == [l \in 1..((drop \div 15) + 1) |->
                     IF l = (drop \div 15) + 1 THEN 2 ^ (drop % 15) ELSE 0]
       IN IF up THEN NatAdd(kept, ulp, 0) ELSE kept

\* float(value) of a string of decimal digits.
float(value) == RoundToDouble(NatOfDecimal(value))

\* x * y of two floats.
FloatMul(x, y) == RoundToDouble(NatMul(x, y))

\* 1024 ** k
RECURSIVE Pow1024(_)
Pow1024(k) == IF k = 0 THEN <<1>> ELSE NatMulSmallAdd(Pow1024(k - 1), 1024, 0)

\* parse_si_unit on a token of digits and letters: float() of a non-number raises
\* ValueError, an unknown suffix KeyError.  round() of a float that is a whole
\* number is that number.
parse_si_unit(value) ==
  IF isdecimal(value) THEN Returns(float(value))
  ELSE LET number == SubSeq(value, 1, Len(value) - 1)
           exponent == SiExponent(value[Len(value)])
       IN IF ~isdecimal(number) THEN Raises("ValueError")
          ELSE IF exponent = {} THEN Raises("KeyError")
          ELSE Returns(FloatMul(float(number),
                                RoundToDouble(Pow1024(CHOOSE k \in exponent : TRUE))))

\* The keys of TIME_UNITS in order, and timedelta's seconds for each keyword;
\* timedelta takes no `years` keyword (0 here: TypeError).
TIME_UNITS == <<"s", "m", "h", "d", "w", "y">>

UnitSeconds == <<1, 60, 3600, 86400, 604800, 0>>

\* s.split(sep)
RECURSIVE SplitOn(_, _)
SplitOn(s, sep) ==
  LET at == {i \in 1..Len(s) : s[i] = sep}
  IN IF at = {} THEN <<s>>
     ELSE <<SubSeq(s, 1, SetMin(at) - 1)>>
            \o SplitOn(SubSeq(s, SetMin(at) + 1, Len(s)), sep)

\* A number below 2^31 as a sequence of limbs.
RECURSIVE NatOfInt(_)
NatOfInt(k) == IF k = 0 THEN <<>> ELSE <<k % Base>> \o NatOfInt(k \div Base)

\* a < b, from the highest limb down.
RECURSIVE NatLess(_, _)
NatLess(a, b) ==
  IF Len(a) # Len(b) THEN Len(a) < Len(b)
  ELSE IF a = <<>> THEN FALSE
  ELSE IF a[Len(a)] # b[Len(b)] THEN a[Len(a)] < b[Len(b)]
  ELSE NatLess(SubSeq(a, 1, Len(a) - 1), SubSeq(b, 1, Len(b) - 1))

\* A timedelta holds less than 1000000000 days (its seconds as a number here);
\* building or adding one beyond that raises OverflowError.
TimedeltaDays == <<"1", "0", "0", "0", "0", "0", "0", "0", "0", "0">>

TimedeltaLimit == NatMul(NatOfDecimal(TimedeltaDays), NatOfInt(UnitSeconds[4]))

\* timedelta(**{unit: n}) for the unit at index u of TIME_UNITS, in seconds.
timedelta(u, n) ==
  IF UnitSeconds[u] = 0 THEN Raises("TypeError")
  ELSE LET seconds == NatMul(n, NatOfInt(UnitSeconds[u]))
       IN IF NatLess(seconds, TimedeltaLimit) THEN Returns(seconds)
          ELSE Raises("OverflowError")

\* delta += term
AddDelta(delta, term) ==
  LET sum == NatAdd(delta, term, 0)
  IN IF NatLess(sum, TimedeltaLimit) THEN Returns(sum) ELSE Raises("OverflowError")

\* A reversal that leaves the parts in their order.
NotReversed(s) == s

RECURSIVE Reverse(_)
Reverse(s) == IF s = <<>> THEN <<>> ELSE Append(Reverse(Tail(s)), s[1])

\* The clock form: the loop over enumerate(value.split(':')[::-1]) from index p
\* with the delta so far.
RECURSIVE ClockDuration(_, _, _)
ClockDuration(parts, p, delta) ==
  IF parts = <<>> THEN Returns(delta)
  ELSE IF p + 1 > Len(TIME_UNITS) THEN Raises("IndexError")
  ELSE IF IntRaises(parts[1]) THEN Raises("ValueError")
  ELSE LET term == timedelta(p + 1, NatOfDecimal(parts[1]))
           sum == AddDelta(delta, term.value)
       IN IF term.exc # "none" THEN term
          ELSE IF sum.exc # "none" THEN sum
          ELSE ClockDuration(Tail(parts), p + 1, sum.value)

\* The compact form: the loop over the characters from index i.
RECURSIVE CompactDuration(_, _, _, _)
CompactDuration(value, i, num, delta) ==
  IF i > Len(value) THEN Returns(delta)
  ELSE IF value[i] \in Digits
  THEN CompactDuration(value, i + 1, NatMulSmallAdd(num, 10, DigitVal(value[i])), delta)
  ELSE LET unit == {u \in 1..Len(TIME_UNITS) : TIME_UNITS[u] = value[i]}
           term == timedelta(CHOOSE u \in unit : TRUE, num)
           sum == AddDelta(delta, term.value)
       IN IF unit = {} THEN Raises("KeyError")
          ELSE IF term.exc # "none" THEN term
          ELSE IF sum.exc # "none" THEN sum
          ELSE CompactDuration(value, i + 1, <<>>, sum.value)

\* parse_time_duration: the duration in seconds.
parse_time_duration(value) ==
  IF \E i \in 1..Len(value) : value[i] = ":"
  THEN ClockDuration(Reverse(SplitOn(value, ":")), 0, <<>>)
  ELSE CompactDuration(value, 1, <<>>, <<>>)

\* datetime.strptime(at, '%a %b %d %H:%M:%S %Y'): the model writes a well-formed
\* date as the letter D and one digit, its time; any other text raises ValueError.
strptime(at) ==
  IF Len(at) = 2 /\ at[1] = "D" /\ at[2] \in Digits
  THEN Returns(DigitVal(at[2]))
  ELSE Raises("ValueError")

\* --------------------------------------------------- zpool_status_parse: scan
\* The number of tokens of the activity phrase the scan value starts with (0: none).
ActivityLen(toks) ==
  IF Len(toks) >= 2 /\ toks[1] = W_scrub /\ toks[2] = W_repaired THEN 2
  ELSE IF Len(toks) >= 1 /\ toks[1] = W_resilvered THEN 1
  ELSE 0

\* re.match of the sentence pattern on the scan value: it has one line (no . runs
\* over a line end) of the form
\* <activity> <corrected> in <duration> with <digits> errors on <at>.
ScanMatches(value) ==
  /\ Len(value) = 1
  /\ LET toks == value[1].toks
         a == ActivityLen(toks)
     IN /\ a > 0
        /\ Len(toks) >= a + 8
        /\ toks[a + 2] = W_in
        /\ toks[a + 4] = W_with
        /\ isdecimal(toks[a + 5])
        /\ toks[a + 6] = W_errors
        /\ toks[a + 7] = W_on

\* The named groups of the match.
ScanGroups(value) ==
  LET toks == value[1].toks
      a == ActivityLen(toks)
  IN [activity |-> JoinTokens(SubSeq(toks, 1, a)),
      corrected |-> toks[a + 1],
      duration |-> toks[a + 3],
      at |-> JoinTokens(SubSeq(toks, a + 8, Len(toks)))]

\* ZpoolScan(at=..., duration=..., corrected=...): the arguments are evaluated in
\* this order, and the first exception raised ends it.
ScanInfo(scan) ==
  LET at == strptime(scan.at)
      duration == parse_time_duration(scan.duration)
      corrected == parse_si_unit(scan.corrected)
  IN IF at.exc # "none" THEN at
     ELSE IF duration.exc # "none" THEN duration
     ELSE IF corrected.exc # "none" THEN corrected
     ELSE Returns([at |-> at.value, duration |-> duration.value,
                   corrected |-> corrected.value])

\* A scan parser that stores the ZpoolScan in both fields.
ParseScanBoth(value) ==
  IF ~ScanMatches(value)
  THEN [exc |-> "none", scrub |-> None, resilvering |-> None]
  ELSE LET scan_info == ScanInfo(ScanGroups(value))
       IN IF scan_info.exc # "none"
          THEN [exc |-> scan_info.exc, scrub |-> None, resilvering |-> None]
          ELSE [exc |-> "none", scrub |-> Some(scan_info.value),
                resilvering |-> Some(scan_info.value)]

\* Lines 244-258 on the scan value: the exception raised, scrub and resilvering.
ParseScan(value) ==
  IF ~ScanMatches(value)
  THEN [exc |-> "none", scrub |-> None, resilvering |-> None]
  ELSE LET scan == ScanGroups(value)
           scan_info == ScanInfo(scan)
       IN IF scan_info.exc # "none"
          THEN [exc |-> scan_info.exc, scrub |-> None, resilvering |-> None]
          ELSE [exc |-> "none",
                scrub |-> IF scan.activity = W_scrub \o <<" ">> \o W_repaired
                          THEN Some(scan_info.value) ELSE None,
                resilvering |-> IF scan.activity = W_resilvered
                                THEN Some(scan_info.value) ELSE None]

ZpoolStatus(matches, configs, scan) ==
  [name |-> DictGet(matches, W_pool),
   state |-> DictGet(matches, W_state),
   configs |-> configs,
   scrub |-> scan.scrub,
   resilvering |-> scan.resilvering]

\* ------------------------------------------------------------------ inputs
\* The texts the parser is run on.  Section i of a text carries the digit i in its
\* pool name, state, scan and device names, so that a record that mixes two
\* sections shows.
W_NAME == <<"N", "A", "M", "E">>
W_STATE == <<"S", "T", "A", "T", "E">>
W_READ == <<"R", "E", "A", "D">>
W_WRITE == <<"W", "R", "I", "T", "E">>
W_CKSUM == <<"C", "K", "S", "U", "M">>
W_ONLINE == <<"O", "N", "L", "I", "N", "E">>
W_AVAIL == <<"A", "V", "A", "I", "L">>

BlankLine == Line(0, <<>>)

PoolName(i) == <<"p", DigitChar(i)>>

PoolLine(i) == Line(2, <<W_pool \o <<":">>, PoolName(i)>>)

PoolState(i) == <<"S", DigitChar(i)>>

StateLine(i) == Line(1, <<W_state \o <<":">>, PoolState(i)>>)

ConfigLine == Line(0, <<W_config \o <<":">> >>)

HeaderLine == Line(1, <<W_NAME, W_STATE, W_READ, W_WRITE, W_CKSUM>>)

ErrorsLine == Line(0, <<W_errors \o <<":">>, W_none>>)

ScanKinds == {"scrub", "resilvered", "requested", "badunit", "baddate"}

\* The scan sentence of section i.
ScanSentence(kind, i) ==
  LET tail == <<W_with, <<"0">>, W_errors, W_on>>
      date == <<"D", DigitChar(i)>>
      clock == <<"0", ":", "0", "1", ":", "0", DigitChar(i)>>
  IN CASE kind = "scrub" ->
            <<W_scrub, W_repaired, <<DigitChar(i), "K">>, W_in, clock>> \o tail \o <<date>>
       [] kind = "resilvered" ->
            <<W_resilvered, <<DigitChar(i)>>, W_in, <<"1", "h", DigitChar(i), "m">> >>
              \o tail \o <<date>>
       [] kind = "badunit" ->
            <<W_scrub, W_repaired, <<"1", "Q">>, W_in, clock>> \o tail \o <<date>>
       [] kind = "baddate" ->
            <<W_scrub, W_repaired, <<"0", "B">>, W_in, clock>> \o tail \o <<W_none>>
       [] OTHER -> <<W_none, <<"r", "e", "q", "u", "e", "s", "t", "e", "d">> >>

ScanLine(kind, i) == Line(2, <<W_scan \o <<":">> >> \o ScanSentence(kind, i))

Counts == <<<<"0">>, <<"0">>, <<"0">> >>

\* The device lines of section i in the texts of several sections.
RootLine(i) == Line(1, <<<<"r", DigitChar(i)>>, W_ONLINE>> \o Counts)

ChildLine(i) == Line(3, <<<<"c", DigitChar(i)>>, W_ONLINE>> \o Counts)

BadRootLine(i) == Line(1, <<<<"r", DigitChar(i)>>, W_ONLINE, <<"x">>, <<"0">>, <<"0">> >>)

\* A spares header at the root's indentation and a spare below it.
SparesLine == Line(1, <<W_spares>>)

SpareLine(i) == Line(3, <<<<"s", DigitChar(i)>>, W_AVAIL>>)

ConfigKinds == {"none", "empty", "header", "one", "two", "spare", "badint"}

ConfigSection(kind, i) ==
  LET body(devices) ==
        <<ConfigLine, BlankLine, HeaderLine>> \o devices \o <<BlankLine, ErrorsLine>>
  IN CASE kind = "none" -> <<>>
       [] kind = "empty" -> <<ConfigLine>>
       [] kind = "header" -> body(<<>>)
       [] kind = "one" -> body(<<RootLine(i)>>)
       [] kind = "two" -> body(<<RootLine(i), ChildLine(i)>>)
       [] kind = "spare" -> body(<<RootLine(i), SparesLine, SpareLine(i)>>)
       [] OTHER -> body(<<BadRootLine(i)>>)

\* The shapes of a section: whether it has a state line, its scan line ("none":
\* no scan line), its config section.
Shape(st, sc, cf) == [st |-> st, sc |-> sc, cf |-> cf]

Shapes ==
  {Shape(TRUE, "scrub", "two"), Shape(TRUE, "none", "one"), Shape(FALSE, "none", "one"),
   Shape(TRUE, "resilvered", "one"), Shape(TRUE, "requested", "spare"),
   Shape(TRUE, "badunit", "one"), Shape(TRUE, "baddate", "one"),
   Shape(TRUE, "scrub", "badint"), Shape(TRUE, "scrub", "header"),
   Shape(TRUE, "scrub", "empty"), Shape(TRUE, "scrub", "none"),
   Shape(FALSE, "none", "none")}

Section(i, shape) ==
  <<PoolLine(i)>>
    \o (IF shape.st THEN <<StateLine(i)>> ELSE <<>>)
    \o (IF shape.sc = "none" THEN <<>> ELSE <<ScanLine(shape.sc, i)>>)
    \o ConfigSection(shape.cf, i)

RECURSIVE Sections(_)
Sections(shapes) ==
  IF shapes = <<>> THEN <<>>
  ELSE Sections(SubSeq(shapes, 1, Len(shapes) - 1))
         \o Section(Len(shapes), shapes[Len(shapes)])

\* What may stand before the first pool line: nothing, an empty line, an empty and
\* a whitespace-only line, other text.
Preambles == {<<>>, <<BlankLine>>, <<BlankLine, Line(2, <<>>)>>, <<Line(0, <<W_none>>)>>}

\* The texts of up to MaxPools sections; the short ones also after each preamble.
SectionInputs ==
  {Sections(shapes) : shapes \in UNION {[1..n -> Shapes] : n \in 0..MaxPools}}
    \cup {pre \o Sections(shapes) :
            pre \in Preambles, shapes \in UNION {[1..n -> Shapes] : n \in 0..1}}

\* Lines that look like a pool line and are none: `spool: p1`, `pool p1`.
Lookalikes ==
  {<<>>, <<Line(2, <<<<"s">> \o W_pool \o <<":">>, PoolName(1)>>)>>,
   <<Line(2, <<W_pool, PoolName(1)>>)>>}

\* The texts without a pool line: a section whose pool line is missing or is a
\* lookalike.
NoPoolInputs ==
  {pre \o look \o Tail(Section(1, shape)) :
     pre \in Preambles, look \in Lookalikes, shape \in Shapes}

\* The device lines of the texts of one section.  Line p is named a<p>; its form
\* says its columns.
DeviceName(p) == <<"a", DigitChar(p)>>

WasComment(name) == <<<<"w", "a", "s">>, <<"/", "d", "/">> \o name>>

DeviceLine(p, ws, form) ==
  LET full(name) == <<name, W_ONLINE>> \o Counts
  IN Line(ws,
       CASE form = "full" -> full(DeviceName(p))
         [] form = "spares" -> <<W_spares>>
         [] form = "was" -> full(DeviceName(p)) \o WasComment(<<"x", DigitChar(p)>>)
         [] form = "bare" -> <<DeviceName(p)>>
         [] form = "avail" -> <<DeviceName(p), W_AVAIL>>
         [] form = "three" -> <<DeviceName(p), W_ONLINE, <<"0">> >>
         [] form = "four" -> <<DeviceName(p), W_ONLINE, <<"0">>, <<"0">> >>
         [] form = "badint" -> <<DeviceName(p), W_ONLINE, <<"0">>, <<"1", "K">>, <<"0">> >>
         [] form = "spareswas" -> full(W_spares) \o WasComment(<<"x", DigitChar(p)>>)
         [] form = "wasspares" -> full(DeviceName(p)) \o WasComment(W_spares)
         [] OTHER -> full(DeviceName(p)) \o <<<<"w", "a", "s", "h">>, <<"u", "p">> >>)

CommonForms == {"full", "spares", "was"}

RareForms == {"bare", "avail", "three", "four", "badint", "spareswas", "wasspares", "wash"}

\* The leading whitespace of a device line: a tab and two blanks per level.
WsLengths == {1, 3, 5}

CommonChoices == [ws : WsLengths, form : CommonForms]

RareChoices == [ws : {3}, form : RareForms]

\* The choices of up to MaxDev device lines: common ones, at most one rare one.
DeviceChoices ==
  {c \in UNION {[1..n -> CommonChoices \cup RareChoices] : n \in 0..MaxDev} :
     Cardinality({p \in 1..Len(c) : c[p] \in RareChoices}) <= 1}

DeviceLines(choices) ==
  [p \in 1..Len(choices) |-> DeviceLine(p, choices[p].ws, choices[p].form)]

\* The texts of one section with such device lines.
DeviceInputs ==
  {<<PoolLine(1), StateLine(1), ConfigLine, BlankLine, HeaderLine>>
     \o DeviceLines(choices) \o <<BlankLine, ErrorsLine>> : choices \in DeviceChoices}

Inputs == SectionInputs \cup NoPoolInputs \cup DeviceInputs

\* --------------------------------------------------- zpool_status_parse: steps
VARIABLES content, pc, blocks, bi, matches, configs, offset, statuses, exc

\* A call of parse_si_unit: where it stands, its argument, what it gave.
VARIABLES si_pc, si_value, si_result

\* A call of parse_time_duration: where it stands, the numbers and units its
\* argument was written from, the argument, what it gave.
VARIABLES td_pc, td_groups, td_value, td_result

\* main(): where the main thread stands, how many functions it has submitted, the
\* future of each function, the metrics each has put in the registry, what was
\* printed, the exception main ended with.
VARIABLES main_pc, submitted, futures, registry, printed, main_exc

\* inotify_instances.py: where the generator stands, the processes under /proc,
\* the users and command filters, which generator runs, the processes still to
\* visit, the samples of the gauge.
VARIABLES ino_pc, ino_proc, ino_users, ino_command, ino_mode, ino_todo, ino_samples

\* deleted_libraries.py: where main stands, the maps files, the files still to
\* read, the lines still to read of the open file, the two dicts, the samples.
VARIABLES lib_pc, lib_maps, lib_paths, lib_lines, processes_linking_deleted_libraries,
          num_processes_per_library, lib_samples

VARIABLES tw_pc, tw_options, tw_hardware, tw_commands, METRICS

VARIABLES zs_pc, zs_statuses, zs_i, zs_registry, zs_exc

VARIABLES gp_pc, gp_proc, gp_pid, gp_yielded, gp_exc

VARIABLES sm_pc, sm_devices, sm_wakeup_disks, sm_i, sm_commands, sm_metrics

VARIABLES st_pc, storcli_path, st_outputs, st_cmd, st_run, metric_list, st_printed, st_exit

VARIABLES sn_pc, sn_rows, per_fs, latest_time_metric, space_used_metric, sn_printed

parseVars == <<content, pc, blocks, bi, matches, configs, offset, statuses, exc>>

siVars == <<si_pc, si_value, si_result>>

tdVars == <<td_pc, td_groups, td_value, td_result>>

mainVars == <<main_pc, submitted, futures, registry, printed, main_exc>>

inoVars == <<ino_pc, ino_proc, ino_users, ino_command, ino_mode, ino_todo, ino_samples>>

libVars == <<lib_pc, lib_maps, lib_paths, lib_lines, processes_linking_deleted_libraries,
            num_processes_per_library, lib_samples>>

twVars == <<tw_pc, tw_options, tw_hardware, tw_commands, METRICS>>

zsVars == <<zs_pc, zs_statuses, zs_i, zs_registry, zs_exc>>

gpVars == <<gp_pc, gp_proc, gp_pid, gp_yielded, gp_exc>>

smVars == <<sm_pc, sm_devices, sm_wakeup_disks, sm_i, sm_commands, sm_metrics>>

stVars == <<st_pc, storcli_path, st_outputs, st_cmd, st_run, metric_list, st_printed, st_exit>>

snVars == <<sn_pc, sn_rows, per_fs, latest_time_metric, space_used_metric, sn_printed>>

vars ==
  <<parseVars, siVars, tdVars, mainVars, inoVars, libVars, twVars, zsVars, gpVars, smVars, stVars, snVars>>

\* What the steps of zpool_status_parse leave alone, and the steps of parse_si_unit.
notParse == <<siVars, tdVars, mainVars, inoVars, libVars, twVars, zsVars, gpVars, smVars, stVars, snVars>>

notSi == <<parseVars, tdVars, mainVars, inoVars, libVars, twVars, zsVars, gpVars, smVars, stVars, snVars>>

notTd == <<parseVars, siVars, mainVars, inoVars, libVars, twVars, zsVars, gpVars, smVars, stVars, snVars>>

notMain == <<parseVars, siVars, tdVars, inoVars, libVars, twVars, zsVars, gpVars, smVars, stVars, snVars>>

notIno == <<parseVars, siVars, tdVars, mainVars, libVars, twVars, zsVars, gpVars, smVars, stVars, snVars>>

notLib == <<parseVars, siVars, tdVars, mainVars, inoVars, twVars, zsVars, gpVars, smVars, stVars, snVars>>

notTw == <<parseVars, siVars, tdVars, mainVars, inoVars, libVars, zsVars, gpVars, smVars, stVars, snVars>>

notZs == <<parseVars, siVars, tdVars, mainVars, inoVars, libVars, twVars, gpVars, smVars, stVars, snVars>>

notGp == <<parseVars, siVars, tdVars, mainVars, inoVars, libVars, twVars, zsVars, smVars, stVars, snVars>>

notSm == <<parseVars, siVars, tdVars, mainVars, inoVars, libVars, twVars, zsVars, gpVars, stVars, snVars>>

notSt == <<parseVars, siVars, tdVars, mainVars, inoVars, libVars, twVars, zsVars, gpVars, smVars, snVars>>

notSn == <<parseVars, siVars, tdVars, mainVars, inoVars, libVars, twVars, zsVars, gpVars, smVars, stVars>>

\* No call of zpool_status_parse, of parse_si_unit.
ParseIdle ==
  /\ content = <<>>
  /\ pc = "idle"
  /\ blocks = <<>>
  /\ bi = 0
  /\ matches = <<>>
  /\ configs = <<>>
  /\ offset = 0
  /\ statuses = <<>>
  /\ exc = "none"

SiIdle ==
  /\ si_pc = "idle"
  /\ si_value = <<>>
  /\ si_result = Returns(<<>>)

TdIdle ==
  /\ td_pc = "idle"
  /\ td_groups = <<>>
  /\ td_value = <<>>
  /\ td_result = Returns(<<>>)

MainIdle ==
  /\ main_pc = "idle"
  /\ submitted = 0
  /\ futures = <<>>
  /\ registry = <<>>
  /\ printed = <<>>
  /\ main_exc = "none"

InoIdle ==
  /\ ino_pc = "idle"
  /\ ino_proc = <<>>
  /\ ino_users = <<>>
  /\ ino_command = <<>>
  /\ ino_mode = "none"
  /\ ino_todo = <<>>
  /\ ino_samples = {}

LibIdle ==
  /\ lib_pc = "idle"
  /\ lib_maps = <<>>
  /\ lib_paths = <<>>
  /\ lib_lines = <<>>
  /\ processes_linking_deleted_libraries = {}
  /\ num_processes_per_library = {}
  /\ lib_samples = {}

TwIdle ==
  /\ tw_pc = "idle"
  /\ tw_options = <<>>
  /\ tw_hardware = <<>>
  /\ tw_commands = <<>>
  /\ METRICS = {}

ZsIdle ==
  /\ zs_pc = "idle"
  /\ zs_statuses = <<>>
  /\ zs_i = 0
  /\ zs_registry = {}
  /\ zs_exc = "none"

GpIdle ==
  /\ gp_pc = "idle"
  /\ gp_proc = <<>>
  /\ gp_pid = 0
  /\ gp_yielded = <<>>
  /\ gp_exc = "none"

SmIdle ==
  /\ sm_pc = "idle"
  /\ sm_devices = <<>>
  /\ sm_wakeup_disks = FALSE
  /\ sm_i = 0
  /\ sm_commands = <<>>
  /\ sm_metrics = {}

StIdle ==
  /\ st_pc = "idle"
  /\ storcli_path = ""
  /\ st_outputs = <<>>
  /\ st_cmd = 0
  /\ st_run = <<>>
  /\ metric_list = {}
  /\ st_printed = {}
  /\ st_exit = "none"

SnIdle ==
  /\ sn_pc = "idle"
  /\ sn_rows = <<>>
  /\ per_fs = <<>>
  /\ latest_time_metric = {}
  /\ space_used_metric = {}
  /\ sn_printed = FALSE

Init ==
  /\ content \in Inputs
  /\ pc = "findall"
  /\ blocks = <<>>
  /\ bi = 0
  /\ matches = <<>>
  /\ configs = <<>>
  /\ offset = 0
  /\ statuses = <<>>
  /\ exc = "none"
  /\ SiIdle
  /\ TdIdle
  /\ MainIdle
  /\ InoIdle
  /\ LibIdle
  /\ TwIdle
  /\ ZsIdle
  /\ GpIdle
  /\ SmIdle
  /\ StIdle
  /\ SnIdle

\* Line 198: the blocks of the text.
FindAll ==
  /\ pc = "findall"
  /\ blocks' = FindBlocks(content, 1)
  /\ bi' = 1
  /\ pc' = "for"
  /\ UNCHANGED <<content, matches, configs, offset, statuses, exc>>
  /\ UNCHANGED notParse

\* Lines 199-205: the keys of the next block and the tuples of its config value.
MatchBlock ==
  /\ pc = "for"
  /\ bi <= Len(blocks)
  /\ matches' = MatchedPairs(blocks[bi], 1)
  /\ configs' = FindConfigs(DictGet(matches', W_config))
  /\ pc' = "configs"
  /\ UNCHANGED <<content, blocks, bi, offset, statuses, exc>>
  /\ UNCHANGED notParse

\* Lines 207-208: no tuple, the block is skipped.
Continue ==
  /\ pc = "configs"
  /\ Len(configs) = 0
  /\ bi' = bi + 1
  /\ pc' = "for"
  /\ UNCHANGED <<content, blocks, matches, configs, offset, statuses, exc>>
  /\ UNCHANGED notParse

\* Lines 210-219: the records of the tuples after the first.
Build ==
  /\ pc = "configs"
  /\ Len(configs) # 0
  /\ ~BuildRaises(configs)
  /\ configs' = BuildConfigs(configs)
  /\ pc' = "spares"
  /\ UNCHANGED <<content, blocks, bi, matches, offset, statuses, exc>>
  /\ UNCHANGED notParse

\* Lines 214-216: int() raises, and the call ends with the exception.
BuildError ==
  /\ pc = "configs"
  /\ Len(configs) # 0
  /\ BuildRaises(configs)
  /\ exc' = "ValueError"
  /\ pc' = "raised"
  /\ UNCHANGED <<content, blocks, bi, matches, configs, offset, statuses>>
  /\ UNCHANGED notParse

\* Lines 221-224: the spare flags.
Spares ==
  /\ pc = "spares"
  /\ configs' = MarkSpares(configs)
  /\ pc' = "names"
  /\ UNCHANGED <<content, blocks, bi, matches, offset, statuses, exc>>
  /\ UNCHANGED notParse

\* Lines 227-231: the indents and the normalized names.
Names ==
  /\ pc = "names"
  /\ configs' = NormalizeNames(SizeIndent(configs))
  /\ pc' = "offset"
  /\ UNCHANGED <<content, blocks, bi, matches, offset, statuses, exc>>
  /\ UNCHANGED notParse

\* Lines 233-240: the offset of the first record and the paths.
Paths ==
  /\ pc = "offset"
  /\ Len(configs) > 0
  /\ offset' = configs[1].indent
  /\ configs' = AccumulatePath(configs, offset')
  /\ pc' = "filter"
  /\ UNCHANGED <<content, blocks, bi, matches, statuses, exc>>
  /\ UNCHANGED notParse

\* Line 233: configs[0] of an empty list raises IndexError.
OffsetError ==
  /\ pc = "offset"
  /\ Len(configs) = 0
  /\ exc' = "IndexError"
  /\ pc' = "raised"
  /\ UNCHANGED <<content, blocks, bi, matches, configs, offset, statuses>>
  /\ UNCHANGED notParse

\* Line 242: the spares lines are dropped, indent and whitespace reset.
Filter ==
  /\ pc = "filter"
  /\ configs' = DropSpares(configs)
  /\ pc' = "scan"
  /\ UNCHANGED <<content, blocks, bi, matches, offset, statuses, exc>>
  /\ UNCHANGED notParse

\* Lines 244-266: the scan value is parsed and the status appended.
Append_ ==
  /\ pc = "scan"
  /\ LET scan == ParseScan(DictGet(matches, W_scan))
     IN /\ scan.exc = "none"
        /\ statuses' = Append(statuses, ZpoolStatus(matches, configs, scan))
  /\ bi' = bi + 1
  /\ pc' = "for"
  /\ UNCHANGED <<content, blocks, matches, configs, offset, exc>>
  /\ UNCHANGED notParse

\* Lines 250-254: building the ZpoolScan raises.
ScanError ==
  /\ pc = "scan"
  /\ LET scan == ParseScan(DictGet(matches, W_scan))
     IN /\ scan.exc # "none"
        /\ exc' = scan.exc
  /\ pc' = "raised"
  /\ UNCHANGED <<content, blocks, bi, matches, configs, offset, statuses>>
  /\ UNCHANGED notParse

\* Line 268: the statuses are returned.
Return ==
  /\ pc = "for"
  /\ bi > Len(blocks)
  /\ pc' = "returned"
  /\ UNCHANGED <<content, blocks, bi, matches, configs, offset, statuses, exc>>
  /\ UNCHANGED notParse

Next ==
  \/ FindAll
  \/ MatchBlock
  \/ Continue
  \/ Build
  \/ BuildError
  \/ Spares
  \/ Names
  \/ Paths
  \/ OffsetError
  \/ Filter
  \/ Append_
  \/ ScanError
  \/ Return

Spec == Init /\ [][Next]_vars

\* ------------------------------------------------------ parse_si_unit: a call
\* The digit strings of length 1..n over the digits 0, 1 and 9.
RECURSIVE DigitStrings(_)
DigitStrings(n) ==
  IF n = 0 THEN {}
  ELSE LET shorter == DigitStrings(n - 1)
       IN {<<d>> : d \in {"0", "1", "9"}} \cup shorter
            \cup {Append(t, d) : t \in shorter, d \in {"0", "1", "9"}}

\* Numbers around 2^53 and 2^54, where a double has no odd number, and 10^21.
LargeNumbers ==
  {<<"9", "0", "0", "7", "1", "9", "9", "2", "5", "4", "7", "4", "0", "9", "9", "1">>,
   <<"9", "0", "0", "7", "1", "9", "9", "2", "5", "4", "7", "4", "0", "9", "9", "2">>,
   <<"9", "0", "0", "7", "1", "9", "9", "2", "5", "4", "7", "4", "0", "9", "9", "3">>,
   <<"9", "0", "0", "7", "1", "9", "9", "2", "5", "4", "7", "4", "0", "9", "9", "4">>,
   <<"9", "0", "0", "7", "1", "9", "9", "2", "5", "4", "7", "4", "0", "9", "9", "5">>,
   <<"1", "8", "0", "1", "4", "3", "9", "8", "5", "0", "9", "4", "8", "1", "9", "8", "5">>,
   <<"1", "0", "0", "0", "0", "0", "0", "0", "0", "0", "0",
     "0", "0", "0", "0", "0", "0", "0", "0", "0", "0", "0">>}

\* What may end a token: nothing, a key of SI_UNITS in either case, another letter.
SiSuffixes ==
  {<<>>} \cup {<<SI_UNITS[i]>> : i \in 1..Len(SI_UNITS)}
         \cup {<<SI_UNITS_lower[i]>> : i \in 1..Len(SI_UNITS_lower)}
         \cup {<<"Q">>, <<"i">>, <<"x">>}

SiInputs ==
  {n \o x : n \in DigitStrings(MaxDigits) \cup LargeNumbers \cup {<<>>}, x \in SiSuffixes}

SiInit ==
  /\ si_value \in SiInputs
  /\ si_pc = "call"
  /\ si_result = Returns(<<>>)
  /\ ParseIdle
  /\ TdIdle
  /\ MainIdle
  /\ InoIdle
  /\ LibIdle
  /\ TwIdle
  /\ ZsIdle
  /\ GpIdle
  /\ SmIdle
  /\ StIdle
  /\ SnIdle

\* Lines 284-287: the call returns or raises.
CallParseSiUnit ==
  /\ si_pc = "call"
  /\ si_result' = parse_si_unit(si_value)
  /\ si_pc' = "done"
  /\ UNCHANGED si_value
  /\ UNCHANGED notSi

SiNext == CallParseSiUnit

SiSpec == SiInit /\ [][SiNext]_vars

\* ------------------------------------------------ parse_time_duration: a call
\* The numbers of a duration: small ones, a padded one, and numbers of hours,
\* days or weeks beyond what a timedelta holds.
TdNumbers ==
  {<<"0">>, <<"6">>, <<"0", "5">>, <<"5", "6">>, <<"5", "7">>, <<"1", "0", "0">>,
   <<"9", "9", "9", "9", "9", "9", "9", "9", "9", "9", "9", "9">>}

\* A group: a number and the letter of its unit.
TdGroup(num, unit) == [num |-> num, unit |-> unit]

\* The suffixes of the groups: the keys of TIME_UNITS and another letter.
TdSuffixes == {TIME_UNITS[u] : u \in 1..Len(TIME_UNITS)} \cup {"x"}

\* Hours, minutes and seconds; any groups up to MaxGroups.
TdClockGroups ==
  {<<TdGroup(h, "h"), TdGroup(m, "m"), TdGroup(sec, "s")>> :
     h \in TdNumbers, m \in TdNumbers, sec \in TdNumbers}

TdAnyGroups ==
  UNION {[1..n -> [num : TdNumbers, unit : TdSuffixes]] : n \in 1..MaxGroups}

\* 'H:M:S' and 'HhMmSs' of the groups.
RECURSIVE ClockForm(_)
ClockForm(groups) ==
  IF groups = <<>> THEN <<>>
  ELSE groups[1].num \o (IF Len(groups) = 1 THEN <<>> ELSE <<":">>) \o ClockForm(Tail(groups))

RECURSIVE CompactForm(_)
CompactForm(groups) ==
  IF groups = <<>> THEN <<>>
  ELSE groups[1].num \o <<groups[1].unit>> \o CompactForm(Tail(groups))

TdInit ==
  /\ \/ /\ td_groups \in TdClockGroups
        /\ td_value = ClockForm(td_groups)
     \/ /\ td_groups \in TdClockGroups \cup TdAnyGroups
        /\ td_value = CompactForm(td_groups)
  /\ td_pc = "call"
  /\ td_result = Returns(<<>>)
  /\ ParseIdle
  /\ SiIdle
  /\ MainIdle
  /\ InoIdle
  /\ LibIdle
  /\ TwIdle
  /\ ZsIdle
  /\ GpIdle
  /\ SmIdle
  /\ StIdle
  /\ SnIdle

\* Lines 300-315: the call returns or raises.
CallParseTimeDuration ==
  /\ td_pc = "call"
  /\ td_result' = parse_time_duration(td_value)
  /\ td_pc' = "done"
  /\ UNCHANGED <<td_groups, td_value>>
  /\ UNCHANGED notTd

TdNext == CallParseTimeDuration

TdSpec == TdInit /\ [][TdNext]_vars

\* ------------------------------------------------------------------- main
\* The metric groups in the order main submits them.
funcs == <<"zpool_metadata", "zpool_info", "dataset_metadata", "dataset_metrics",
           "zpool_status">>

MainInit ==
  /\ main_pc = "submit"
  /\ submitted = 0
  /\ futures = [i \in 1..Len(funcs) |-> "unsubmitted"]
  /\ registry = [i \in 1..Len(funcs) |-> 0]
  /\ printed = <<>>
  /\ main_exc = "none"
  /\ ParseIdle
  /\ SiIdle
  /\ TdIdle
  /\ InoIdle
  /\ LibIdle
  /\ TwIdle
  /\ ZsIdle
  /\ GpIdle
  /\ SmIdle
  /\ StIdle
  /\ SnIdle

\* Lines 322-323: executor.submit(func, registry) of the next function.
Submit ==
  /\ main_pc = "submit"
  /\ submitted < Len(funcs)
  /\ submitted' = submitted + 1
  /\ futures' = [futures EXCEPT ![submitted + 1] = "pending"]
  /\ UNCHANGED <<main_pc, registry, printed, main_exc>>
  /\ UNCHANGED notMain

\* A pool of one worker thread.
SingleWorkerFree(fs) == Cardinality({j \in 1..Len(fs) : fs[j] = "running"}) < 1

\* ThreadPoolExecutor(max_workers=len(funcs)): a worker is free for one more function.
WorkerFree(fs) == Cardinality({j \in 1..Len(fs) : fs[j] = "running"}) < Len(funcs)

\* A worker thread of the pool takes the function.
Run(i) ==
  /\ futures[i] = "pending"
  /\ WorkerFree(futures)
  /\ futures' = [futures EXCEPT ![i] = "running"]
  /\ UNCHANGED <<main_pc, submitted, registry, printed, main_exc>>
  /\ UNCHANGED notMain

\* The function puts one more metric in the registry.
Collect(i) ==
  /\ futures[i] = "running"
  /\ registry[i] < MaxMetrics
  /\ registry' = [registry EXCEPT ![i] = registry[i] + 1]
  /\ UNCHANGED <<main_pc, submitted, futures, printed, main_exc>>
  /\ UNCHANGED notMain

\* The function returns.
ReturnFunc(i) ==
  /\ futures[i] = "running"
  /\ futures' = [futures EXCEPT ![i] = "done"]
  /\ UNCHANGED <<main_pc, submitted, registry, printed, main_exc>>
  /\ UNCHANGED notMain

\* A function whose exception is raised in the main thread, as a plain call or
\* future.result() would.
RaiseInMain(i) ==
  /\ futures[i] = "running"
  /\ futures' = [futures EXCEPT ![i] = "raised"]
  /\ main_exc' = funcs[i]
  /\ main_pc' = "aborted"
  /\ UNCHANGED <<submitted, registry, printed>>
  /\ UNCHANGED notMain

\* The function raises: the worker stores the exception in the future, which main
\* never reads.
RaiseFunc(i) ==
  /\ futures[i] = "running"
  /\ futures' = [futures EXCEPT ![i] = "raised"]
  /\ UNCHANGED <<main_pc, submitted, registry, printed, main_exc>>
  /\ UNCHANGED notMain

\* Line 321: leaving the with block waits for every submitted function.
Shutdown ==
  /\ main_pc = "submit"
  /\ submitted = Len(funcs)
  /\ \A i \in 1..Len(funcs) : futures[i] \in {"done", "raised"}
  /\ main_pc' = "print"
  /\ UNCHANGED <<submitted, futures, registry, printed, main_exc>>
  /\ UNCHANGED notMain

\* Line 325: the registry is printed.
PrintRegistry ==
  /\ main_pc = "print"
  /\ printed' = registry
  /\ main_pc' = "end"
  /\ UNCHANGED <<submitted, futures, registry, main_exc>>
  /\ UNCHANGED notMain

MainNext ==
  \/ Submit
  \/ \E i \in 1..Len(funcs) : Run(i)
  \/ \E i \in 1..Len(funcs) : Collect(i)
  \/ \E i \in 1..Len(funcs) : ReturnFunc(i)
  \/ \E i \in 1..Len(funcs) : RaiseFunc(i)
  \/ Shutdown
  \/ PrintRegistry

MainSpec == MainInit /\ [][MainNext]_vars

\* The threads are scheduled and the functions end.
MainFairSpec == MainSpec /\ WF_vars(MainNext)

\* ------------------------------------------------------- inotify_instances.py
\* The commands of the processes.
Cmd_systemd == <<"s", "y", "s", "t", "e", "m", "d", "-", "a">>

Cmd_prom == <<"p", "r", "o", "m">>

\* An entry of /proc: whether its files can be read ("ok"), raise PermissionError
\* ("denied") or are gone ("gone"), its owner, its command, its inotify fds.
ProcEntries ==
  [access : {"ok"}, uid : {0, 33}, command : {Cmd_systemd, Cmd_prom}, fds : 0..2]
    \cup [access : {"denied"}, uid : {0}, command : {Cmd_prom}, fds : {1}]

ProcTables == UNION {[1..n -> ProcEntries] : n \in 0..MaxProcs}

\* A compiled regex of the form <literal> or <literal>.+
Pattern(literal, more) == [literal |-> literal, more |-> more]

\* A search that finds the pattern anywhere in the command.
PatternSearch(pattern, command) ==
  \E k \in 1..(Len(command) + 1) :
    /\ startswith(SubSeq(command, k, Len(command)), pattern.literal)
    /\ pattern.more => Len(command) - k + 1 > Len(pattern.literal)

\* command.match(proc.command): the pattern matches at the start of the command.
PatternMatch(pattern, command) ==
  /\ startswith(command, pattern.literal)
  /\ pattern.more => Len(command) > Len(pattern.literal)

\* The command filters: none, '.+', 'systemd-.+' and 'd-.+'.
CommandFilters ==
  {None, Some(Pattern(<<>>, TRUE)),
   Some(Pattern(<<"s", "y", "s", "t", "e", "m", "d", "-">>, TRUE)),
   Some(Pattern(<<"d", "-">>, TRUE))}

UserFilters == {<<>>, <<33>>}

\* _get_processes: the processes that can be read, the pid being the place in /proc.
RECURSIVE get_processes(_, _)
get_processes(proc, pid) ==
  IF pid > Len(proc) THEN <<>>
  ELSE (IF proc[pid].access = "ok"
        THEN <<[pid |-> pid, uid |-> proc[pid].uid, command |-> proc[pid].command,
                inotify_instances |-> proc[pid].fds]>>
        ELSE <<>>) \o get_processes(proc, pid + 1)

\* `users and proc.uid not in users`
UserFiltered(users, uid) == users # <<>> /\ \A k \in 1..Len(users) : users[k] # uid

\* `command and not command.match(proc.command)`
CommandFiltered(command, name) == command # None /\ ~PatternMatch(command[1], name)

\* g.labels(...).set(value): the sample of these labels is replaced.
GaugeSet(samples, labels, value) ==
  {x \in samples : x.labels # labels} \cup {[labels |-> labels, value |-> value]}

\* g.labels(...).inc(): the sample of these labels, 0 at first, grows by one.
GaugeInc(samples, labels) ==
  LET old == {x \in samples : x.labels = labels}
  IN GaugeSet(samples, labels, IF old = {} THEN 1 ELSE (CHOOSE x \in old : TRUE).value + 1)

InoInit ==
  /\ ino_proc \in ProcTables
  /\ ino_users \in UserFilters
  /\ \/ ino_mode = "process" /\ ino_command \in CommandFilters
     \/ ino_mode = "user" /\ ino_command = None
  /\ ino_pc = "call"
  /\ ino_todo = <<>>
  /\ ino_samples = {}
  /\ ParseIdle
  /\ SiIdle
  /\ TdIdle
  /\ MainIdle
  /\ LibIdle
  /\ TwIdle
  /\ ZsIdle
  /\ GpIdle
  /\ SmIdle
  /\ StIdle
  /\ SnIdle

\* Lines 127 and 152: the loop over _get_processes(proc) starts.
GetProcesses ==
  /\ ino_pc = "call"
  /\ ino_todo' = get_processes(ino_proc, 1)
  /\ ino_pc' = "for"
  /\ UNCHANGED <<ino_proc, ino_users, ino_command, ino_mode, ino_samples>>
  /\ UNCHANGED notIno

\* Lines 128-133: a process without instances, of another user, or whose command
\* does not match, is passed over.
ProcessContinue ==
  /\ ino_pc = "for"
  /\ ino_mode = "process"
  /\ ino_todo # <<>>
  /\ \/ ino_todo[1].inotify_instances <= 0
     \/ UserFiltered(ino_users, ino_todo[1].uid)
     \/ CommandFiltered(ino_command, ino_todo[1].command)
  /\ ino_todo' = Tail(ino_todo)
  /\ UNCHANGED <<ino_pc, ino_proc, ino_users, ino_command, ino_mode, ino_samples>>
  /\ UNCHANGED notIno

\* Line 135: g.labels(proc.pid, proc.uid, proc.command).set(proc.inotify_instances)
ProcessSet ==
  /\ ino_pc = "for"
  /\ ino_mode = "process"
  /\ ino_todo # <<>>
  /\ ino_todo[1].inotify_instances > 0
  /\ ~UserFiltered(ino_users, ino_todo[1].uid)
  /\ ~CommandFiltered(ino_command, ino_todo[1].command)
  /\ ino_samples' = GaugeSet(ino_samples,
                             <<ino_todo[1].pid, ino_todo[1].uid, ino_todo[1].command>>,
                             ino_todo[1].inotify_instances)
  /\ ino_todo' = Tail(ino_todo)
  /\ UNCHANGED <<ino_pc, ino_proc, ino_users, ino_command, ino_mode>>
  /\ UNCHANGED notIno

\* Lines 153-156: a process without instances or of another user is passed over.
UserContinue ==
  /\ ino_pc = "for"
  /\ ino_mode = "user"
  /\ ino_todo # <<>>
  /\ \/ ino_todo[1].inotify_instances <= 0
     \/ UserFiltered(ino_users, ino_todo[1].uid)
  /\ ino_todo' = Tail(ino_todo)
  /\ UNCHANGED <<ino_pc, ino_proc, ino_users, ino_command, ino_mode, ino_samples>>
  /\ UNCHANGED notIno

\* Line 158: g.labels(proc.uid).inc()
UserInc ==
  /\ ino_pc = "for"
  /\ ino_mode = "user"
  /\ ino_todo # <<>>
  /\ ino_todo[1].inotify_instances > 0
  /\ ~UserFiltered(ino_users, ino_todo[1].uid)
  /\ ino_samples' = GaugeInc(ino_samples, <<ino_todo[1].uid>>)
  /\ ino_todo' = Tail(ino_todo)
  /\ UNCHANGED <<ino_pc, ino_proc, ino_users, ino_command, ino_mode>>
  /\ UNCHANGED notIno

\* Lines 137 and 160: the samples of the registry are returned.
GenerateLatest ==
  /\ ino_pc = "for"
  /\ ino_todo = <<>>
  /\ ino_pc' = "done"
  /\ UNCHANGED <<ino_proc, ino_users, ino_command, ino_mode, ino_todo, ino_samples>>
  /\ UNCHANGED notIno

InoNext ==
  \/ GetProcesses
  \/ ProcessContinue
  \/ ProcessSet
  \/ UserContinue
  \/ UserInc
  \/ GenerateLatest

InoSpec == InoInit /\ [][InoNext]_vars

\* -------------------------------------------------------- deleted_libraries.py
\* A path is the sequence of its components: /usr/lib/liba.so, /usr/lib/libb.so
\* and /usr/bin/tool.
Lib_a == <<"usr", "lib", "liba.so">>

Lib_b == <<"usr", "lib", "libb.so">>

Bin_tool == <<"usr", "bin", "tool">>

\* A line of a maps file that names a file: the file, and the comment after it
\* ("" when the line ends with the file, so that it has six parts and not seven).
MapsLines ==
  {[library |-> Lib_a, comment |-> "(deleted)"], [library |-> Lib_b, comment |-> "(deleted)"],
   [library |-> Lib_a, comment |-> ""], [library |-> Bin_tool, comment |-> "(deleted)"]}

\* A maps file: it can be read, has gone since the glob, or cannot be opened.
MapsFiles ==
  [access : {"ok"}, lines : UNION {[1..n -> MapsLines] : n \in 0..MaxLines}]
    \cup [access : {"ENOENT", "EACCES"}, lines : {<<>>}]

\* The files of /proc/*/maps of one or two processes, by pid.
MapsTables == [{1} -> MapsFiles] \cup [{1, 2} -> MapsFiles]

\* '/lib/' in library
InLibDir(library) == \E k \in 1..(Len(library) - 1) : library[k] = "lib"

\* The keys of a dict kept as a set of records.
PathsOf(linking) == {r.path : r \in linking}

\* Lines 24-37 on one line of the file of path: the library is recorded inside
\* `if path not in processes_linking_deleted_libraries`, in the dict made there.
RecordLine(linking, path, line) ==
  IF line.comment # "" /\ InLibDir(line.library) /\ line.comment = "(deleted)"
  THEN IF path \notin PathsOf(linking)
       THEN linking \cup {[path |-> path, library |-> line.library, count |-> 1]}
       ELSE linking
  ELSE linking

\* Lines 44-56: each library of a process counts the process once.
CountProcessesPerLibrary(linking) ==
  {[library |-> l, count |-> Cardinality({r.path : r \in {x \in linking : x.library = l}})] :
     l \in {r.library : r \in linking}}

\* Lines 63-65: os.path.split(library) and the gauge of each library.
LibraryGauges(counts) ==
  {[labels |-> <<SubSeq(r.library, 1, Len(r.library) - 1), r.library[Len(r.library)]>>,
    value |-> r.count] : r \in counts}

LibInit ==
  /\ lib_maps \in MapsTables
  /\ lib_pc = "glob"
  /\ lib_paths = <<>>
  /\ lib_lines = <<>>
  /\ processes_linking_deleted_libraries = {}
  /\ num_processes_per_library = {}
  /\ lib_samples = {}
  /\ ParseIdle
  /\ SiIdle
  /\ TdIdle
  /\ MainIdle
  /\ InoIdle
  /\ TwIdle
  /\ ZsIdle
  /\ GpIdle
  /\ SmIdle
  /\ StIdle
  /\ SnIdle

\* Line 20: glob.glob('/proc/*/maps')
Glob ==
  /\ lib_pc = "glob"
  /\ lib_paths' = [k \in 1..Cardinality(DOMAIN lib_maps) |-> k]
  /\ lib_pc' = "open"
  /\ UNCHANGED <<lib_maps, lib_lines, processes_linking_deleted_libraries,
                 num_processes_per_library, lib_samples>>
  /\ UNCHANGED notLib

\* Line 22: the next file is opened.
OpenFile ==
  /\ lib_pc = "open"
  /\ lib_paths # <<>>
  /\ lib_maps[lib_paths[1]].access = "ok"
  /\ lib_lines' = lib_maps[lib_paths[1]].lines
  /\ lib_pc' = "read"
  /\ UNCHANGED <<lib_maps, lib_paths, processes_linking_deleted_libraries,
                 num_processes_per_library, lib_samples>>
  /\ UNCHANGED notLib

\* Lines 38-41: a file that has gone is passed over.
OpenGone ==
  /\ lib_pc = "open"
  /\ lib_paths # <<>>
  /\ lib_maps[lib_paths[1]].access = "ENOENT"
  /\ lib_paths' = Tail(lib_paths)
  /\ UNCHANGED <<lib_pc, lib_maps, lib_lines, processes_linking_deleted_libraries,
                 num_processes_per_library, lib_samples>>
  /\ UNCHANGED notLib

\* Line 42: sys.exit on any other error.
OpenFailed ==
  /\ lib_pc = "open"
  /\ lib_paths # <<>>
  /\ lib_maps[lib_paths[1]].access = "EACCES"
  /\ lib_pc' = "exit"
  /\ UNCHANGED <<lib_maps, lib_paths, lib_lines, processes_linking_deleted_libraries,
                 num_processes_per_library, lib_samples>>
  /\ UNCHANGED notLib

\* Lines 23-37: one line of the open file.
ReadLine ==
  /\ lib_pc = "read"
  /\ lib_lines # <<>>
  /\ processes_linking_deleted_libraries' =
       RecordLine(processes_linking_deleted_libraries, lib_paths[1], lib_lines[1])
  /\ lib_lines' = Tail(lib_lines)
  /\ UNCHANGED <<lib_pc, lib_maps, lib_paths, num_processes_per_library, lib_samples>>
  /\ UNCHANGED notLib

\* Line 23: the file has no more lines.
CloseFile ==
  /\ lib_pc = "read"
  /\ lib_lines = <<>>
  /\ lib_paths' = Tail(lib_paths)
  /\ lib_pc' = "open"
  /\ UNCHANGED <<lib_maps, lib_lines, processes_linking_deleted_libraries,
                 num_processes_per_library, lib_samples>>
  /\ UNCHANGED notLib

\* Lines 44-56: the processes of each library are counted.
CountProcesses ==
  /\ lib_pc = "open"
  /\ lib_paths = <<>>
  /\ num_processes_per_library' =
       CountProcessesPerLibrary(processes_linking_deleted_libraries)
  /\ lib_pc' = "gauge"
  /\ UNCHANGED <<lib_maps, lib_paths, lib_lines, processes_linking_deleted_libraries,
                 lib_samples>>
  /\ UNCHANGED notLib

\* Lines 58-67: the gauges are set and printed.
PrintGauges ==
  /\ lib_pc = "gauge"
  /\ lib_samples' = LibraryGauges(num_processes_per_library)
  /\ lib_pc' = "done"
  /\ UNCHANGED <<lib_maps, lib_paths, lib_lines, processes_linking_deleted_libraries,
                 num_processes_per_library>>
  /\ UNCHANGED notLib

LibNext ==
  \/ Glob
  \/ OpenFile
  \/ OpenGone
  \/ OpenFailed
  \/ ReadLine
  \/ CloseFile
  \/ CountProcesses
  \/ PrintGauges

LibSpec == LibInit /\ [][LibNext]_vars

\* ------------------------------------------------------------------ tw_cli.py
\* The options of the command line that main reads before it tests anything.
TwOptions == [arrays_only : BOOLEAN, drives_only : BOOLEAN, warn_true : BOOLEAN,
              incl_info : BOOLEAN]

\* The controllers c0, c1, ... of the machine, each with its unit u0 and its
\* drive p0 in some state.
TwHardware ==
  UNION {[1..n -> [unit : {"OK", "REBUILDING", "DEGRADED"},
                   drive : {"OK", "VERIFYING", "SMART-FAILURE"}]] : n \in 0..MaxCtl}

\* The name of controller k without its leading c: controller[1:]
ControllerLabel(k) == <<"controller", ToString(k - 1)>>

\* run(cmd): the command is sent to the utility.
TwCommand(cmd, k) == [cmd |-> cmd, controller |-> k]

\* add_metric: METRICS[metric + '{' + labelstr + '}'] = str(value)
add_metric(M, metric, labels, value) ==
  {m \in M : ~(m.metric = metric /\ m.labels = labels)}
    \cup {[metric |-> metric, labels |-> labels, value |-> value]}

\* The body of the loop of test_arrays for the unit line of controller k.
ArrayStatus(M, k, state, warn_true) ==
  LET info == add_metric(M, "array_info",
                <<ControllerLabel(k), <<"unit", "0">>, <<"state", state>>,
                  <<"raid", "RAID-1">>>>, "1")
      plain == <<ControllerLabel(k), <<"unit", "0">>, <<"state", state>>>>
  IN IF state = "OK" THEN add_metric(info, "array_status", plain, "1")
     ELSE IF state \in {"REBUILDING", "VERIFY-PAUSED", "VERIFYING", "INITIALIZING"}
          THEN add_metric(info, "array_status", Append(plain, <<"pct", "50%">>),
                          IF warn_true THEN "0" ELSE "1")
          ELSE add_metric(info, "array_status", plain, "0")

\* The body of the loop of test_drives for the drive line of controller k.
DriveStatus(M, k, state, warn_true) ==
  LET labels == <<ControllerLabel(k), <<"drive", "p0">>, <<"array", "0">>,
                  <<"state", state>>>>
  IN IF state \in {"OK", "NOT-PRESENT"} THEN add_metric(M, "drive_status", labels, "1")
     ELSE IF ~warn_true /\ state \in {"VERIFYING", "REBUILDING", "INITIALIZING"}
          THEN add_metric(M, "drive_status", labels, "1")
          ELSE add_metric(M, "drive_status", labels, "0")

RECURSIVE ArraysFrom(_, _, _, _)
ArraysFrom(M, hw, k, warn_true) ==
  IF k > Len(hw) THEN M
  ELSE ArraysFrom(ArrayStatus(M, k, hw[k].unit, warn_true), hw, k + 1, warn_true)

RECURSIVE DrivesFrom(_, _, _, _)
DrivesFrom(M, hw, k, warn_true) ==
  IF k > Len(hw) THEN M
  ELSE DrivesFrom(DriveStatus(M, k, hw[k].drive, warn_true), hw, k + 1, warn_true)

\* The commands of test_arrays, of test_drives and of collect_controller.
ArrayCommands(hw) ==
  <<TwCommand("show", 0)>> \o [k \in 1..Len(hw) |-> TwCommand("show unitstatus", k)]

DriveCommands(hw) ==
  <<TwCommand("show", 0)>> \o [k \in 1..Len(hw) |-> TwCommand("show drivestatus", k)]

RECURSIVE InfoCommands(_, _)
InfoCommands(hw, k) ==
  IF k > Len(hw) THEN <<>>
  ELSE <<TwCommand("show all", k), TwCommand("bbu show all", k),
         TwCommand("show drivestatus", k), TwCommand("p0 show all", k)>>
         \o InfoCommands(hw, k + 1)

\* collect_details with no detail line in the output: the metric with its injected labels.
RECURSIVE InfoFrom(_, _, _)
InfoFrom(M, hw, k) ==
  IF k > Len(hw) THEN M
  ELSE InfoFrom(
         add_metric(
           add_metric(add_metric(M, "controller_info", <<ControllerLabel(k)>>, "1"),
                      "bbu_info", <<ControllerLabel(k)>>, "1"),
           "drive_info", <<ControllerLabel(k), <<"drive", "p0">>>>, "1"),
         hw, k + 1)

TwInit ==
  /\ tw_pc = "main"
  /\ tw_options \in TwOptions
  /\ tw_hardware \in TwHardware
  /\ tw_commands = <<>>
  /\ METRICS = {}
  /\ ParseIdle
  /\ SiIdle
  /\ TdIdle
  /\ MainIdle
  /\ InoIdle
  /\ LibIdle
  /\ ZsIdle
  /\ GpIdle
  /\ SmIdle
  /\ StIdle
  /\ SnIdle

\* Lines 365-376: the switches that exclude each other.
TwUsage ==
  /\ tw_pc = "main"
  /\ \/ tw_options.arrays_only /\ tw_options.drives_only
     \/ tw_options.drives_only /\ tw_options.warn_true
  /\ tw_pc' = "exit 1"
  /\ UNCHANGED <<tw_options, tw_hardware, tw_commands, METRICS>>
  /\ UNCHANGED notTw

\* Lines 378-381 with drives_only: test_drives
TestDrivesOnly ==
  /\ tw_pc = "main"
  /\ ~(tw_options.arrays_only /\ tw_options.drives_only)
  /\ ~(tw_options.drives_only /\ tw_options.warn_true)
  /\ tw_options.drives_only
  /\ tw_commands' = tw_commands \o DriveCommands(tw_hardware)
  /\ METRICS' = DrivesFrom(METRICS, tw_hardware, 1, tw_options.warn_true)
  /\ tw_pc' = "tested"
  /\ UNCHANGED <<tw_options, tw_hardware>>
  /\ UNCHANGED notTw

\* Lines 378-381 otherwise: test_all, which is test_arrays and then test_drives
TestAll ==
  /\ tw_pc = "main"
  /\ ~(tw_options.arrays_only /\ tw_options.drives_only)
  /\ ~(tw_options.drives_only /\ tw_options.warn_true)
  /\ ~tw_options.drives_only
  /\ tw_commands' = tw_commands \o ArrayCommands(tw_hardware) \o DriveCommands(tw_hardware)
  /\ METRICS' = DrivesFrom(ArraysFrom(METRICS, tw_hardware, 1, tw_options.warn_true),
                           tw_hardware, 1, tw_options.warn_true)
  /\ tw_pc' = "tested"
  /\ UNCHANGED <<tw_options, tw_hardware>>
  /\ UNCHANGED notTw

\* Lines 383-384: collect_controller
CollectController ==
  /\ tw_pc = "tested"
  /\ tw_options.incl_info
  /\ tw_commands' = tw_commands \o <<TwCommand("show", 0)>> \o InfoCommands(tw_hardware, 1)
  /\ METRICS' = InfoFrom(METRICS, tw_hardware, 1)
  /\ tw_pc' = "collected"
  /\ UNCHANGED <<tw_options, tw_hardware>>
  /\ UNCHANGED notTw

\* Line 386: exit_clean prints METRICS and exits with 0.
ExitClean ==
  /\ \/ tw_pc = "tested" /\ ~tw_options.incl_info
     \/ tw_pc = "collected"
  /\ tw_pc' = "exit 0"
  /\ UNCHANGED <<tw_options, tw_hardware, tw_commands, METRICS>>
  /\ UNCHANGED notTw

TwNext ==
  \/ TwUsage
  \/ TestDrivesOnly
  \/ TestAll
  \/ CollectController
  \/ ExitClean

TwSpec == TwInit /\ [][TwNext]_vars

\* ------------------------------------------------- zpool_status, scan_metrics
\* The statuses zpool_status_parse can return: a name, a state, one or two
\* devices, and no activity, a scrub or a resilvering.
ScanOfPool(k) == [at |-> k, duration |-> 60 * k, corrected |-> 0]

DevicesOfPool(k, n) ==
  [j \in 1..n |->
     [name |-> IF j = 1 THEN PoolName(k) ELSE DeviceName(j),
      path |-> IF j = 1 THEN <<PoolName(k)>> ELSE <<PoolName(k), DeviceName(j)>>,
      state |-> W_ONLINE, read |-> Some(0), write |-> Some(0), checksum |-> Some(0)]]

StatusesOfPool(k) ==
  {[name |-> PoolName(k), state |-> state, configs |-> DevicesOfPool(k, n),
    scrub |-> IF activity = "scrub" THEN Some(ScanOfPool(k)) ELSE None,
    resilvering |-> IF activity = "resilvering" THEN Some(ScanOfPool(k)) ELSE None] :
     state \in {W_ONLINE, <<"D", "E", "G", "R", "A", "D", "E", "D">>}, n \in 1..2,
     activity \in {"none", "scrub", "resilvering"}}

ParsedStatuses ==
  UNION {{s \in [1..n -> UNION {StatusesOfPool(k) : k \in 1..n}] :
            \A k \in 1..n : s[k] \in StatusesOfPool(k)} : n \in 0..MaxStatuses}

\* A sample of the registry: gauge.labels(...).set(value)
Sample(metric, labels, value) == [metric |-> metric, labels |-> labels, value |-> value]

\* Lines 169-188: the three gauges of an activity, with the five arguments bound.
scan_metrics(activity, metrics, reg, status, scan) ==
  {Sample(<<activity, "duration">>, <<status.name>>, scan.duration),
   Sample(<<activity, "corrected">>, <<status.name>>, scan.corrected),
   Sample(<<activity, "time">>, <<status.name>>, scan.at)}

\* A call of scan_metrics with positional arguments: a call that does not give
\* the five parameters raises TypeError before the body runs.
CallScanMetrics(args) ==
  IF Len(args) = 5
  THEN Returns(scan_metrics(args[1], args[2], args[3], args[4], args[5]))
  ELSE Raises("TypeError")

\* Lines 145-148: the status gauge of a pool.
StatusSample(status) == Sample(<<"status">>, <<status.name, status.state>>, 1)

\* Lines 156-166: the vdev_info gauge of each device of a pool.
VdevSamples(status) ==
  {Sample(<<"vdev_info">>,
          <<status.name, status.configs[j].name, status.configs[j].path,
            status.configs[j].state, status.configs[j].read, status.configs[j].write,
            status.configs[j].checksum>>, 1) : j \in 1..Len(status.configs)}

\* Lines 150-154: the calls of scan_metrics of a status, as they are written:
\* scan_metrics('scrub', metrics, registry, status.scrub)
ScanCalls(status, metrics) ==
  (IF status.scrub # None
   THEN <<CallScanMetrics(<<"scrub", metrics, metrics, status.scrub[1]>>)>> ELSE <<>>)
  \o (IF status.resilvering # None
      THEN <<CallScanMetrics(<<"resilvering", metrics, metrics, status.resilvering[1]>>)>>
      ELSE <<>>)

ZsInit ==
  /\ zs_pc = "for"
  /\ zs_statuses \in ParsedStatuses
  /\ zs_i = 1
  /\ zs_registry = {}
  /\ zs_exc = "none"
  /\ ParseIdle
  /\ SiIdle
  /\ TdIdle
  /\ MainIdle
  /\ InoIdle
  /\ LibIdle
  /\ TwIdle
  /\ GpIdle
  /\ SmIdle
  /\ StIdle
  /\ SnIdle

\* Lines 145-166: one turn of the loop in which no call raises.
StatusMetrics ==
  /\ zs_pc = "for"
  /\ zs_i <= Len(zs_statuses)
  /\ LET status == zs_statuses[zs_i]
         calls == ScanCalls(status, zs_registry)
     IN /\ \A c \in 1..Len(calls) : calls[c].exc = "none"
        /\ zs_registry' = zs_registry \cup {StatusSample(status)}
                            \cup UNION {calls[c].value : c \in 1..Len(calls)}
                            \cup VdevSamples(status)
  /\ zs_i' = zs_i + 1
  /\ UNCHANGED <<zs_pc, zs_statuses, zs_exc>>
  /\ UNCHANGED notZs

\* Lines 145-154: the status gauge is set, then a call of scan_metrics raises and
\* zpool_status ends with the exception.
ScanMetricsRaises ==
  /\ zs_pc = "for"
  /\ zs_i <= Len(zs_statuses)
  /\ LET status == zs_statuses[zs_i]
         calls == ScanCalls(status, zs_registry)
     IN /\ \E c \in 1..Len(calls) : calls[c].exc # "none"
        /\ zs_registry' = zs_registry \cup {StatusSample(status)}
        /\ zs_exc' = calls[1].exc
  /\ zs_pc' = "raised"
  /\ UNCHANGED <<zs_statuses, zs_i>>
  /\ UNCHANGED notZs

\* Line 144: the list is at its end.
StatusesDone ==
  /\ zs_pc = "for"
  /\ zs_i > Len(zs_statuses)
  /\ zs_pc' = "returned"
  /\ UNCHANGED <<zs_statuses, zs_i, zs_registry, zs_exc>>
  /\ UNCHANGED notZs

ZsNext ==
  \/ StatusMetrics
  \/ ScanMetricsRaises
  \/ StatusesDone

ZsSpec == ZsInit /\ [][ZsNext]_vars

\* ---------------------------------------------- inotify_instances: _get_processes
\* What becomes of a process while /proc is scanned: it stays ("alive"), it is
\* gone before its status file is looked at, before its cmdline file is opened,
\* between the opening and the reading of that file, or before its fd directory is
\* listed, or its fd directory may not be read ("denied").
ProcFates ==
  {"alive", "gone before stat", "gone before open", "gone before read",
   "gone before listdir", "denied"}

\* What readlink gives for the fds of a process: an inotify instance, something
\* else, or FileNotFoundError for an fd closed since the listing.
FdLists ==
  {<<>>, <<"anon_inode:inotify">>, <<"ENOENT", "anon_inode:inotify">>,
   <<"anon_inode:inotify", "socket">>}

ScannedEntries ==
  [fate : {"alive"}, uid : {0}, command : {Cmd_prom}, fds : FdLists]
    \cup [fate : ProcFates \ {"alive"}, uid : {0}, command : {Cmd_prom},
          fds : {<<"anon_inode:inotify">>}]

ScannedTables == UNION {[1..n -> ScannedEntries] : n \in 0..MaxProcs}

\* Lines 57-62: os.stat of the status file.
pid_uid(p) ==
  IF p.fate = "gone before stat" THEN Raises("_PIDGoneError") ELSE Returns(p.uid)

\* Lines 65-79: open() of the cmdline file raises FileNotFoundError for a process
\* that is gone; read() of the open file of a process that has gone since raises
\* ProcessLookupError, which the function does not catch.
pid_command(p) ==
  IF p.fate = "gone before open" THEN Raises("_PIDGoneError")
  ELSE IF p.fate = "gone before read" THEN Raises("ProcessLookupError")
  ELSE Returns(p.command)

\* Lines 82-95: the fds that link to an inotify instance; one that is gone is passed.
RECURSIVE CountInstances(_)
CountInstances(fds) ==
  IF fds = <<>> THEN 0
  ELSE (IF fds[1] = "anon_inode:inotify" THEN 1 ELSE 0) + CountInstances(Tail(fds))

pid_inotify_instances(p) ==
  IF p.fate = "gone before listdir" THEN Raises("_PIDGoneError")
  ELSE IF p.fate = "denied" THEN Raises("PermissionError")
  ELSE Returns(CountInstances(p.fds))

\* Lines 104-109: the three calls in order; the first exception ends the others.
ScanProcess(p) ==
  IF pid_uid(p).exc # "none" THEN pid_uid(p)
  ELSE IF pid_command(p).exc # "none" THEN pid_command(p)
  ELSE IF pid_inotify_instances(p).exc # "none" THEN pid_inotify_instances(p)
  ELSE Returns([uid |-> pid_uid(p).value, command |-> pid_command(p).value,
                inotify_instances |-> pid_inotify_instances(p).value])

\* Line 111: except (PermissionError, _PIDGoneError)
Caught(e) == e \in {"PermissionError", "_PIDGoneError"}

GpInit ==
  /\ gp_pc = "for"
  /\ gp_proc \in ScannedTables
  /\ gp_pid = 1
  /\ gp_yielded = <<>>
  /\ gp_exc = "none"
  /\ ParseIdle
  /\ SiIdle
  /\ TdIdle
  /\ MainIdle
  /\ InoIdle
  /\ LibIdle
  /\ TwIdle
  /\ ZsIdle
  /\ SmIdle
  /\ StIdle
  /\ SnIdle

\* Lines 100-110: the record of the next process is yielded.
YieldProcess ==
  /\ gp_pc = "for"
  /\ gp_pid <= Len(gp_proc)
  /\ ScanProcess(gp_proc[gp_pid]).exc = "none"
  /\ gp_yielded' = Append(gp_yielded,
                          [pid |-> gp_pid] @@ ScanProcess(gp_proc[gp_pid]).value)
  /\ gp_pid' = gp_pid + 1
  /\ UNCHANGED <<gp_pc, gp_proc, gp_exc>>
  /\ UNCHANGED notGp

\* Lines 111-112: the process is passed over.
SkipProcess ==
  /\ gp_pc = "for"
  /\ gp_pid <= Len(gp_proc)
  /\ Caught(ScanProcess(gp_proc[gp_pid]).exc)
  /\ gp_pid' = gp_pid + 1
  /\ UNCHANGED <<gp_pc, gp_proc, gp_yielded, gp_exc>>
  /\ UNCHANGED notGp

\* Lines 100-112: an exception that is not caught leaves the generator.
ScanRaises ==
  /\ gp_pc = "for"
  /\ gp_pid <= Len(gp_proc)
  /\ ScanProcess(gp_proc[gp_pid]).exc # "none"
  /\ ~Caught(ScanProcess(gp_proc[gp_pid]).exc)
  /\ gp_exc' = ScanProcess(gp_proc[gp_pid]).exc
  /\ gp_pc' = "raised"
  /\ UNCHANGED <<gp_proc, gp_pid, gp_yielded>>
  /\ UNCHANGED notGp

\* Line 99: /proc has no more entry.
ScanDone ==
  /\ gp_pc = "for"
  /\ gp_pid > Len(gp_proc)
  /\ gp_pc' = "done"
  /\ UNCHANGED <<gp_proc, gp_pid, gp_yielded, gp_exc>>
  /\ UNCHANGED notGp

GpNext ==
  \/ YieldProcess
  \/ SkipProcess
  \/ ScanRaises
  \/ ScanDone

GpSpec == GpInit /\ [][GpNext]_vars

\* ------------------------------------------- smartmon.py: collect_disks_smart_metrics
\* A device smartctl --scan-open finds: whether the standby probe finds it active,
\* what `SMART support` lines its --info output has, whether its type starts with sat.
SmartDevices ==
  [active : BOOLEAN, support : {{}, {"Available"}, {"Available", "Enabled"}},
   sat : BOOLEAN]

SmartDeviceLists == UNION {[1..n -> SmartDevices] : n \in 0..MaxDisks}

\* smart_ctl(...) run against device k.
SmartCtl(k, args) == [device |-> k, args |-> args]

\* metrics[name].labels(<labels of device k>).set(value): a bool is set as 0 or 1.
SmartMetric(k, name, value) ==
  [device |-> k, metric |-> name, value |-> IF value THEN 1 ELSE 0]

\* Lines 230-244: False when the probe fails with CalledProcessError.
device_is_active(device) == device.active

\* An iteration that never stops after the probe.
SkipsNever(is_active, wakeup_disks) == FALSE

\* Line 406: `if not is_active and not wakeup_disks: continue`
SkipsStandby(is_active, wakeup_disks) == ~is_active /\ ~wakeup_disks

SmInit ==
  /\ sm_pc = "for"
  /\ sm_devices \in SmartDeviceLists
  /\ sm_wakeup_disks \in BOOLEAN
  /\ sm_i = 1
  /\ sm_commands = <<>>
  /\ sm_metrics = {}
  /\ ParseIdle
  /\ SiIdle
  /\ TdIdle
  /\ MainIdle
  /\ InoIdle
  /\ LibIdle
  /\ TwIdle
  /\ ZsIdle
  /\ GpIdle
  /\ StIdle
  /\ SnIdle

\* Lines 399-403: the standby probe of the next device and its device_active metric.
ProbeDevice ==
  /\ sm_pc = "for"
  /\ sm_i <= Len(sm_devices)
  /\ sm_commands' = Append(sm_commands, SmartCtl(sm_i, "--nocheck standby"))
  /\ sm_metrics' = sm_metrics \cup
       {SmartMetric(sm_i, "device_active", device_is_active(sm_devices[sm_i]))}
  /\ sm_pc' = "probed"
  /\ UNCHANGED <<sm_devices, sm_wakeup_disks, sm_i>>
  /\ UNCHANGED notSm

\* Lines 406-407: a device in standby is left alone.
SkipDevice ==
  /\ sm_pc = "probed"
  /\ SkipsStandby(device_is_active(sm_devices[sm_i]), sm_wakeup_disks)
  /\ sm_i' = sm_i + 1
  /\ sm_pc' = "for"
  /\ UNCHANGED <<sm_devices, sm_wakeup_disks, sm_commands, sm_metrics>>
  /\ UNCHANGED notSm

\* Lines 409-419: collect_device_info and device_smart_capabilities, each with
\* its own --info command, and the two SMART gauges.
CollectInfo ==
  /\ sm_pc = "probed"
  /\ ~SkipsStandby(device_is_active(sm_devices[sm_i]), sm_wakeup_disks)
  /\ sm_commands' = sm_commands \o <<SmartCtl(sm_i, "--info"), SmartCtl(sm_i, "--info")>>
  /\ sm_metrics' = sm_metrics \cup
       {SmartMetric(sm_i, "device_info", TRUE),
        SmartMetric(sm_i, "device_smart_available",
                    "Available" \in sm_devices[sm_i].support),
        SmartMetric(sm_i, "device_smart_enabled", "Enabled" \in sm_devices[sm_i].support)}
  /\ sm_pc' = "capabilities"
  /\ UNCHANGED <<sm_devices, sm_wakeup_disks, sm_i>>
  /\ UNCHANGED notSm

\* Lines 423-424: SMART is not available.
SkipNoSmart ==
  /\ sm_pc = "capabilities"
  /\ "Available" \notin sm_devices[sm_i].support
  /\ sm_i' = sm_i + 1
  /\ sm_pc' = "for"
  /\ UNCHANGED <<sm_devices, sm_wakeup_disks, sm_commands, sm_metrics>>
  /\ UNCHANGED notSm

\* Lines 426-430: the health assessment and, for a sat device, the attributes and
\* the error log.
CollectHealth ==
  /\ sm_pc = "capabilities"
  /\ "Available" \in sm_devices[sm_i].support
  /\ sm_commands' = sm_commands \o <<SmartCtl(sm_i, "--health")>>
       \o (IF sm_devices[sm_i].sat
           THEN <<SmartCtl(sm_i, "--attributes"), SmartCtl(sm_i, "-l xerror,1")>> ELSE <<>>)
  /\ sm_metrics' = sm_metrics \cup {SmartMetric(sm_i, "device_smart_healthy", TRUE)}
       \cup (IF sm_devices[sm_i].sat
             THEN {SmartMetric(sm_i, "attr", TRUE), SmartMetric(sm_i, "device_errors", FALSE)}
             ELSE {})
  /\ sm_i' = sm_i + 1
  /\ sm_pc' = "for"
  /\ UNCHANGED <<sm_devices, sm_wakeup_disks>>
  /\ UNCHANGED notSm

\* Line 399: no more device.
DevicesDone ==
  /\ sm_pc = "for"
  /\ sm_i > Len(sm_devices)
  /\ sm_pc' = "done"
  /\ UNCHANGED <<sm_devices, sm_wakeup_disks, sm_i, sm_commands, sm_metrics>>
  /\ UNCHANGED notSm

SmNext ==
  \/ ProbeDevice
  \/ SkipDevice
  \/ CollectInfo
  \/ SkipNoSmart
  \/ CollectHealth
  \/ DevicesDone

SmSpec == SmInit /\ [][SmNext]_vars

\* ------------------------------------------------------------------ storcli.py
\* The three calls of get_storcli_json that main makes, in order.
StorcliArgs == <<"/cALL show all J", "/cALL/cv show all J", "/cALL/bbu show all J">>

\* --storcli_path: an executable file, a path where there is no file, or a bare
\* name that is no file of the working directory and is found on PATH by Popen.
StorcliPaths == {"executable file", "missing", "on PATH"}

\* What storcli prints for a command: the Command Status of the first controller,
\* and whether the controller has Response Data.
StorcliOutputs == [status : {"Success", "Failure"}, response : BOOLEAN]

\* Lines 50-60 and 69-78: what main takes from the data of a command: the first
\* command's Response Data is handled whatever the status, the others' only with
\* status Success; a missing key raises KeyError, which is passed.
Handled(cmd, data) ==
  IF data.response /\ (cmd = 1 \/ data.status = "Success") THEN {StorcliArgs[cmd]} ELSE {}

StInit ==
  /\ st_pc = "call"
  /\ storcli_path \in StorcliPaths
  /\ st_outputs \in [1..Len(StorcliArgs) -> StorcliOutputs]
  /\ st_cmd = 1
  /\ st_run = <<>>
  /\ metric_list = {}
  /\ st_printed = {}
  /\ st_exit = "none"
  /\ ParseIdle
  /\ SiIdle
  /\ TdIdle
  /\ MainIdle
  /\ InoIdle
  /\ LibIdle
  /\ TwIdle
  /\ ZsIdle
  /\ GpIdle
  /\ SmIdle
  /\ SnIdle

\* Lines 392-396 with no file to run: SystemExit(1) is built and not raised, Popen
\* raises OSError, which nothing catches: a traceback and exit status 1.
PopenRaises ==
  /\ st_pc = "call"
  /\ storcli_path = "missing"
  /\ st_exit' = "1"
  /\ st_pc' = "exited"
  /\ UNCHANGED <<storcli_path, st_outputs, st_cmd, st_run, metric_list, st_printed>>
  /\ UNCHANGED notSt

\* Lines 392-402: the command is run and its data returned; neither SystemExit(1)
\* of lines 393 and 401 is raised, so neither test changes what follows.
GetStorcliJson ==
  /\ st_pc = "call"
  /\ storcli_path # "missing"
  /\ st_run' = Append(st_run, StorcliArgs[st_cmd])
  /\ st_pc' = "handle"
  /\ UNCHANGED <<storcli_path, st_outputs, st_cmd, metric_list, st_printed, st_exit>>
  /\ UNCHANGED notSt

\* Lines 52-63 and 71-81: main handles the data and goes to the next command.
HandleData ==
  /\ st_pc = "handle"
  /\ metric_list' = metric_list \cup Handled(st_cmd, st_outputs[st_cmd])
  /\ st_cmd' = st_cmd + 1
  /\ st_pc' = IF st_cmd < Len(StorcliArgs) THEN "call" ELSE "print"
  /\ UNCHANGED <<storcli_path, st_outputs, st_run, st_printed, st_exit>>
  /\ UNCHANGED notSt

\* Line 83: print_all_metrics, and the script ends with status 0.
PrintAllMetrics ==
  /\ st_pc = "print"
  /\ st_printed' = metric_list
  /\ st_exit' = "0"
  /\ st_pc' = "exited"
  /\ UNCHANGED <<storcli_path, st_outputs, st_cmd, st_run, metric_list>>
  /\ UNCHANGED notSt

StNext ==
  \/ PopenRaises
  \/ GetStorcliJson
  \/ HandleData
  \/ PrintAllMetrics

StSpec == StInit /\ [][StNext]_vars

\* ------------------------------------------------------------- zfs-snapshots.py
\* The rows zfs_parse_line gives: pool, volume, snapshot, used, creation, for the
\* snapshots of the datasets p/a and p/b.
SnapshotRows ==
  [pool : {"p"}, volume : {"/a", "/b"}, snapshot : {"s"}, used : {1, 2}, creation : {1, 2}]

SnapshotLists == UNION {[1..n -> SnapshotRows] : n \in 0..MaxRows}

\* The key of groupby: row[0:2]
RowKey(row) == <<row.pool, row.volume>>

\* One group per key, whether or not its rows are adjacent.
RECURSIVE GroupAll(_)
GroupAll(rows) ==
  IF rows = <<>> THEN <<>>
  ELSE LET SameKey(r) == RowKey(r) = RowKey(rows[1])
           OtherKey(r) == RowKey(r) # RowKey(rows[1])
       IN <<<<RowKey(rows[1]), SelectSeq(rows, SameKey)>>>> \o GroupAll(SelectSeq(rows, OtherKey))

\* itertools.groupby(snapshots, key): a new group each time the key changes.
RECURSIVE groupby(_)
groupby(rows) ==
  IF rows = <<>> THEN <<>>
  ELSE LET before == groupby(SubSeq(rows, 1, Len(rows) - 1))
           row == rows[Len(rows)]
       IN IF before # <<>> /\ before[Len(before)][1] = RowKey(row)
          THEN [before EXCEPT ![Len(before)] = <<RowKey(row), Append(before[Len(before)][2], row)>>]
          ELSE Append(before, <<RowKey(row), <<row>>>>)

\* reduce(add, values, 0) and reduce(max, values, 0)
RECURSIVE ReduceAdd(_)
ReduceAdd(values) ==
  IF values = <<>> THEN 0 ELSE ReduceAdd(SubSeq(values, 1, Len(values) - 1)) + values[Len(values)]

RECURSIVE ReduceMax(_)
ReduceMax(values) ==
  IF values = <<>> THEN 0
  ELSE LET m == ReduceMax(SubSeq(values, 1, Len(values) - 1))
       IN IF values[Len(values)] > m THEN values[Len(values)] ELSE m

\* Lines 55-58: aggregate_rows(rows, -2, add) and aggregate_rows(rows, -1, max)
AggregateUsed(groups) ==
  [g \in 1..Len(groups) |->
     <<groups[g][1], ReduceAdd([k \in 1..Len(groups[g][2]) |-> groups[g][2][k].used])>>]

AggregateCreation(groups) ==
  [g \in 1..Len(groups) |->
     <<groups[g][1], ReduceMax([k \in 1..Len(groups[g][2]) |-> groups[g][2][k].creation])>>]

\* Lines 10-15: collect_metrics sets the gauge of each row in turn.
RECURSIVE collect_metrics(_, _)
collect_metrics(metric, it) ==
  IF it = <<>> THEN metric
  ELSE collect_metrics(GaugeSet(metric, it[1][1], it[1][2]), Tail(it))

SnInit ==
  /\ sn_pc = "main"
  /\ sn_rows \in SnapshotLists
  /\ per_fs = <<>>
  /\ latest_time_metric = {}
  /\ space_used_metric = {}
  /\ sn_printed = FALSE
  /\ ParseIdle
  /\ SiIdle
  /\ TdIdle
  /\ MainIdle
  /\ InoIdle
  /\ LibIdle
  /\ TwIdle
  /\ ZsIdle
  /\ GpIdle
  /\ SmIdle
  /\ StIdle

\* Lines 84-89: the rows are grouped.
GroupRows ==
  /\ sn_pc = "main"
  /\ per_fs' = groupby(sn_rows)
  /\ sn_pc' = "latest_time"
  /\ UNCHANGED <<sn_rows, latest_time_metric, space_used_metric, sn_printed>>
  /\ UNCHANGED notSn

\* Lines 92 and 94: the latest creation of each group is set.
CollectLatestTime ==
  /\ sn_pc = "latest_time"
  /\ latest_time_metric' = collect_metrics(latest_time_metric, AggregateCreation(per_fs))
  /\ sn_pc' = "space_used"
  /\ UNCHANGED <<sn_rows, per_fs, space_used_metric, sn_printed>>
  /\ UNCHANGED notSn

\* Lines 91 and 95: the space used of each group is set.
CollectSpaceUsed ==
  /\ sn_pc = "space_used"
  /\ space_used_metric' = collect_metrics(space_used_metric, AggregateUsed(per_fs))
  /\ sn_pc' = "print"
  /\ UNCHANGED <<sn_rows, per_fs, latest_time_metric, sn_printed>>
  /\ UNCHANGED notSn

\* Line 97: the registry is printed.
PrintSnapshots ==
  /\ sn_pc = "print"
  /\ sn_printed' = TRUE
  /\ sn_pc' = "done"
  /\ UNCHANGED <<sn_rows, per_fs, latest_time_metric, space_used_metric>>
  /\ UNCHANGED notSn

SnNext ==
  \/ GroupRows
  \/ CollectLatestTime
  \/ CollectSpaceUsed
  \/ PrintSnapshots

SnSpec == SnInit /\ [][SnNext]_vars

\* ------------------------------------------------- the claims: what they speak of
\* A line of the form `pool: <name>`, read off the text.
HasPoolMarker(l) == Len(l.toks) >= 2 /\ l.toks[1] = W_pool \o <<":">>

PoolMarkers(text) == {i \in 1..Len(text) : HasPoolMarker(text[i])}

\* The blocks of the contract: from each `pool:` line to the line before the next.
RECURSIVE ClaimedBlocks(_, _)
ClaimedBlocks(text, from) ==
  LET marks == {i \in PoolMarkers(text) : i >= from}
  IN IF marks = {} THEN <<>>
     ELSE LET s == SetMin(marks)
              later == {i \in marks : i > s}
              e == IF later = {} THEN Len(text) ELSE SetMin(later) - 1
          IN <<SubSeq(text, s, e)>> \o ClaimedBlocks(text, e + 1)

\* A block without the blank lines above its pool line.
RECURSIVE FromPoolLine(_)
FromPoolLine(block) ==
  IF block # <<>> /\ IsBlank(block[1]) THEN FromPoolLine(Tail(block)) ELSE block

\* What the parser makes of one block taken alone.
BlockMatches(block) == MatchedPairs(block, 1)

BlockTuples(block) == FindConfigs(DictGet(BlockMatches(block), W_config))

HasDeviceLine(block) == Len(BlockTuples(block)) >= 2

BlockConfigs(block) ==
  LET built == NormalizeNames(SizeIndent(MarkSpares(BuildConfigs(BlockTuples(block)))))
  IN DropSpares(AccumulatePath(built, built[1].indent))

BlockStatus(block) ==
  ZpoolStatus(BlockMatches(block), BlockConfigs(block),
              ParseScan(DictGet(BlockMatches(block), W_scan)))

\* The tuples of the device lines of the block being parsed, header dropped.
Tuples == DeviceTuples(FindConfigs(DictGet(matches, W_config)))

\* The depth of a record: the integer part of its leading whitespace length / 2.
Depth(config) == config.leading_whitespace \div 2

\* seg is the last '/'-separated segment of text.
IsLastSegmentOf(seg, text) ==
  \E k \in 0..Len(text) :
    /\ seg = SubSeq(text, k + 1, Len(text))
    /\ \A i \in 1..Len(seg) : seg[i] # "/"
    /\ (k = 0 \/ text[k] = "/")

\* The comment column of a tuple starts with 'was '.
TupleIsWas(t) == Len(t[7]) >= 4 /\ SubSeq(t[7], 1, 4) = W_was

\* The name a tuple ends with: the last segment of what follows 'was ', or its own.
TupleName(t) ==
  IF TupleIsWas(t)
  THEN CHOOSE seg \in {SubSeq(t[7], k, Len(t[7])) : k \in 5..(Len(t[7]) + 1)} :
         IsLastSegmentOf(seg, SubSeq(t[7], 5, Len(t[7])))
  ELSE t[2]

\* ------------------------------------------------------------------- claims
\* C1: the splitter yields one block per `pool: <name>` line, in input order, the
\* i-th from the i-th pool line to the line before the next pool line (or the end
\* of the input), for any number of pool lines.
C1_OneBlockPerPoolLine ==
  pc # "findall" =>
    /\ Len(blocks) = Cardinality(PoolMarkers(content))
    /\ \A i \in 1..Len(blocks) :
         FromPoolLine(blocks[i]) = ClaimedBlocks(content, 1)[i]

\* C2: zpool_status_parse returns one ZpoolStatus per input block that has a
\* device line, in input order, each made of the values of that block only.
C2_OneStatusPerBlock ==
  pc = "returned" =>
    LET good == SelectSeq(ClaimedBlocks(content, 1), HasDeviceLine)
    IN /\ Len(statuses) = Len(good)
       /\ \A i \in 1..Len(good) :
            /\ ~BuildRaises(BlockTuples(good[i]))
            /\ statuses[i] = BlockStatus(good[i])

\* C3: a block whose config section holds only the header line is dropped without
\* an exception.
C3_HeaderOnlyBlockDropped ==
  DictGet(matches, W_config) = <<Line(0, HeaderLine.toks)>> => pc # "raised"

\* C4: a failure while parsing one block (a non-integer error column, an
\* unparsable scan timestamp, an unknown unit suffix) does not end the parsing of
\* the blocks after it.
C4_FailureKeepsLaterBlocks ==
  ~(pc = "raised" /\ exc \in {"ValueError", "KeyError"} /\ bi < Len(blocks))

\* C5 as stated: whatever the indentation of the device lines, every returned
\* device has len(path) = depth - depth of the first device line + 1.
C5_PathLengthAnyIndentation ==
  pc = "filter" =>
    \A i \in 1..Len(configs) :
      Kept(configs[i]) =>
        Len(configs[i].path) = Depth(configs[i]) - Depth(configs[1]) + 1

\* The device lines are indented like a tree: none is above the first line, and
\* none is more than one level below the line before it.
TreeIndented(cs) ==
  \A i \in 1..Len(cs) :
    /\ Depth(cs[i]) >= Depth(cs[1])
    /\ i > 1 => Depth(cs[i]) <= Depth(cs[i - 1]) + 1

\* C5 amended: the path length is depth - depth of the first line + 1 for every
\* device when the lines are indented like a tree.
C5_PathLengthOfTree ==
  (pc = "filter" /\ TreeIndented(configs)) =>
    \A i \in 1..Len(configs) :
      Len(configs[i].path) = Depth(configs[i]) - Depth(configs[1]) + 1

C5_Witness ==
  /\ pc = "filter"
  /\ TreeIndented(configs)
  /\ Len(configs) = 3
  /\ Len(configs[2].path) = 2
  /\ Len(configs[3].path) = 1

\* C6: a text without a `pool:` marker line (empty, blank, or anything else) gives
\* no block, no status and no exception.
C6_NoPoolNoStatus ==
  PoolMarkers(content) = {} =>
    /\ blocks = <<>>
    /\ statuses = <<>>
    /\ pc \in {"findall", "for", "returned"}

C6_Witness ==
  /\ pc = "returned"
  /\ PoolMarkers(content) = {}
  /\ \E i \in 1..Len(content) :
       Len(content[i].toks) = 2 /\ content[i].toks[2] = PoolName(1)
  /\ \E i \in 1..Len(content) : content[i] = RootLine(1)

\* C7: a block without a config value gives no ZpoolStatus: every status returned
\* is named after a block that has a config value.
C7_NoConfigNoStatus ==
  pc = "returned" =>
    \A k \in 1..Len(statuses) :
      \E i \in 1..Len(ClaimedBlocks(content, 1)) :
        LET block == ClaimedBlocks(content, 1)[i]
        IN /\ statuses[k].name = <<Line(0, Tail(block[1].toks))>>
           /\ \E j \in 1..Len(block) : block[j] = ConfigLine

\* C8: in a block, a device is flagged is_spare exactly when a line named
\* `spares` stands at or before it; the flag is off again at the start of the
\* next block.
C8_SpareFlagFollowsHeader ==
  pc = "filter" =>
    \A i \in 1..Len(configs) :
      configs[i].is_spare = (\E j \in 1..i : Tuples[j][2] = W_spares)

C8_Witness ==
  /\ pc = "filter"
  /\ bi = 2
  /\ Len(statuses) = 1
  /\ \E i \in 1..Len(statuses[1].configs) : statuses[1].configs[i].is_spare
  /\ Len(configs) = 3
  /\ ~configs[1].is_spare
  /\ configs[3].is_spare

\* The names of the records in order.
NamesOf(cs) == [i \in 1..Len(cs) |-> cs[i].name]

TupleIsHeader(t) == t[2] = W_spares

TupleKeepsName(t) == TupleName(t) # W_spares

TupleNames(ts) == [i \in 1..Len(ts) |-> TupleName(ts[i])]

C10_NameRecovery ==
  pc = "filter" =>
    \A i \in 1..Len(configs) :
      /\ TupleIsWas(Tuples[i]) =>
           IsLastSegmentOf(configs[i].name, SubSeq(Tuples[i][7], 5, Len(Tuples[i][7])))
      /\ ~TupleIsWas(Tuples[i]) => configs[i].name = Tuples[i][2]
      /\ configs[i].path[Len(configs[i].path)] = configs[i].name
      /\ configs[i].comment = (IF Tuples[i][7] = <<>> THEN None ELSE Some(Tuples[i][7]))
      /\ (i > 1 /\ Len(configs[i].path) > Len(configs[i - 1].path)) =>
           configs[i].path[Len(configs[i - 1].path)] = configs[i - 1].name

C10_Witness ==
  /\ pc = "filter"
  /\ Len(configs) >= 2
  /\ TupleIsWas(Tuples[1])
  /\ configs[1].name = <<"x", "1">>
  /\ configs[2].path = <<<<"x", "1">>, configs[2].name>>

\* ------------------------------------------------------------------ C11
\* The scan value of the block at hand, and the phrase it starts with.
ScanValue == DictGet(matches, W_scan)

StartsWithScrub(value) ==
  Len(value) = 1 /\ Len(value[1].toks) >= 2
    /\ value[1].toks[1] = W_scrub /\ value[1].toks[2] = W_repaired

StartsWithResilvered(value) ==
  Len(value) = 1 /\ Len(value[1].toks) >= 1 /\ value[1].toks[1] = W_resilvered

\* C11: the record appended for a block has at most one of scrub / resilvering:
\* scrub alone when the scan value matches with the phrase 'scrub repaired',
\* resilvering alone with 'resilvered', and when the scan value is absent or does
\* not match, the block is appended with both None and no exception is raised.
C11_OneActivityPerBlock ==
  [][pc = "scan" =>
       LET last == statuses'[Len(statuses')]
       IN /\ pc' = "for" =>
               /\ Len(statuses') = Len(statuses) + 1
               /\ last.scrub = None \/ last.resilvering = None
               /\ (ScanMatches(ScanValue) /\ StartsWithScrub(ScanValue)) =>
                     (last.scrub # None /\ last.resilvering = None)
               /\ (ScanMatches(ScanValue) /\ StartsWithResilvered(ScanValue)) =>
                     (last.resilvering # None /\ last.scrub = None)
          /\ ~ScanMatches(ScanValue) =>
               /\ pc' = "for" /\ exc' = "none"
               /\ last.scrub = None /\ last.resilvering = None]_vars

C11_Witness ==
  /\ pc = "returned"
  /\ Len(statuses) = 2
  /\ statuses[1].scrub # None /\ statuses[1].resilvering = None
  /\ statuses[2].scrub = None /\ statuses[2].resilvering = None
  /\ ~ScanMatches(ScanValue)

\* ------------------------------------------------------------------ C12
\* The letters that scale a number, as the claims name them, in either case.
MagnitudeLetters == <<"K", "M", "G", "T", "P", "E", "Z", "Y">>

RecognizedLetters ==
  {"B", "b"} \cup {MagnitudeLetters[i] : i \in 1..Len(MagnitudeLetters)}
             \cup {"k", "m", "g", "t", "p", "e", "z", "y"}

\* The last character of a token is neither a digit nor a recognized letter.
UnknownSuffix(token) ==
  /\ token # <<>>
  /\ token[Len(token)] \notin Digits
  /\ token[Len(token)] \notin RecognizedLetters

\* C12: on a scan sentence whose corrected token ends in an unknown suffix,
\* parse_si_unit raises, and zpool_status_parse ends with an exception (that of
\* parse_si_unit when the date and the duration parse) and appends no record.
C12_UnknownSuffixRaises ==
  [][(pc = "scan" /\ ScanMatches(ScanValue)
        /\ UnknownSuffix(ScanGroups(ScanValue).corrected)) =>
       LET scan == ScanGroups(ScanValue)
           corrected == parse_si_unit(scan.corrected)
       IN /\ corrected.exc # "none"
          /\ pc' = "raised"
          /\ exc' # "none"
          /\ statuses' = statuses
          /\ (strptime(scan.at).exc = "none"
                /\ parse_time_duration(scan.duration).exc = "none") =>
               exc' = corrected.exc]_vars

C12_Witness ==
  /\ pc = "raised"
  /\ exc = "KeyError"
  /\ ScanMatches(ScanValue)
  /\ UnknownSuffix(ScanGroups(ScanValue).corrected)

\* ------------------------------------------------------------------ C13
RECURSIVE Times1024(_, _)
Times1024(n, k) == IF k = 0 THEN n ELSE Times1024(NatMulSmallAdd(n, 1024, 0), k - 1)

\* C13: a decimal integer n followed by the k-th letter of K, M, G, T, P, E, Z, Y
\* parses to n * 1024^k; '0' parses to 0 and '1M' to 1048576 (32 * 2^15).
C13_ScaledByPowerOf1024 ==
  si_pc = "done" =>
    /\ \A k \in 1..Len(MagnitudeLetters) :
         ( /\ Len(si_value) >= 2
           /\ si_value[Len(si_value)] = MagnitudeLetters[k]
           /\ isdecimal(SubSeq(si_value, 1, Len(si_value) - 1)) )
         => si_result = Returns(Times1024(
                          NatOfDecimal(SubSeq(si_value, 1, Len(si_value) - 1)), k))
    /\ si_value = <<"0">> => si_result = Returns(<<>>)
    /\ si_value = <<"1", "M">> => si_result = Returns(<<0, 32>>)

\* ------------------------------------------------------------------ C14
\* C14: a bare decimal integer string parses to exactly the integer it denotes.
C14_BareIntegerExact ==
  (si_pc = "done" /\ isdecimal(si_value)) => si_result = Returns(NatOfDecimal(si_value))

\* ------------------------------------------------------------------ C15
\* Groups of hours, minutes and seconds, and 3600*H + 60*M + S of them.
IsHMS(groups) ==
  Len(groups) = 3 /\ groups[1].unit = "h" /\ groups[2].unit = "m" /\ groups[3].unit = "s"

TotalHMS(groups) ==
  NatAdd(NatAdd(NatMul(NatOfDecimal(groups[1].num), NatOfInt(3600)),
                NatMul(NatOfDecimal(groups[2].num), NatOfInt(60)), 0),
         NatOfDecimal(groups[3].num), 0)

\* 10^9 days in seconds.
RangeOfTimedelta ==
  NatOfDecimal(<<"8", "6", "4", "0", "0", "0", "0", "0", "0", "0", "0", "0", "0", "0">>)

\* C15 as stated: for all H, M, S both 'H:M:S' and 'HhMmSs' parse to
\* 3600*H + 60*M + S seconds.
C15_ClockEqualsCompact ==
  (td_pc = "done" /\ IsHMS(td_groups)) => td_result = Returns(TotalHMS(td_groups))

\* C15 amended: both forms parse to 3600*H + 60*M + S seconds when that total is
\* below 10^9 days, and both raise OverflowError when it is not.
C15_ClockEqualsCompactInRange ==
  (td_pc = "done" /\ IsHMS(td_groups)) =>
    IF NatLess(TotalHMS(td_groups), RangeOfTimedelta)
    THEN td_result = Returns(TotalHMS(td_groups))
    ELSE td_result.exc = "OverflowError"

C15_Witness ==
  /\ td_pc = "done"
  /\ td_value = <<"6", ":", "5", "7", ":", "5", "6">>
  /\ td_result = Returns(NatOfInt(25076))

\* ------------------------------------------------------------------ C16
\* The groups carry the six suffixes only, and numbers of at most three digits.
KnownSuffixesOnly(groups) ==
  \A i \in 1..Len(groups) :
    groups[i].unit \in {"s", "m", "h", "d", "w", "y"} /\ Len(groups[i].num) <= 3

\* C16: a compact duration made of <number><suffix> groups with the suffixes
\* s, m, h, d, w, y parses without raising.
C16_SixSuffixesAccepted ==
  (td_pc = "done" /\ td_value = CompactForm(td_groups) /\ KnownSuffixesOnly(td_groups))
    => td_result.exc = "none"

\* ------------------------------------------------------------------ C17
\* C17: an exception of a metric group never reaches main; main prints the
\* registry in every run, after every function has returned or raised, with all
\* the metrics of the functions that returned.
C17_RaisingGroupAbortsOnlyItself ==
  /\ [](main_exc = "none" /\ main_pc # "aborted")
  /\ [](main_pc = "end" =>
          /\ \A i \in 1..Len(funcs) : futures[i] \in {"done", "raised"}
          /\ printed = registry)
  /\ <>(main_pc = "end")

C17_Witness ==
  /\ main_pc = "end"
  /\ futures[5] = "raised"
  /\ \A i \in 1..4 : futures[i] = "done" /\ printed[i] = MaxMetrics

\* ------------------------------------------------------------ C18 and C19
\* The processes under /proc that can be read, by their pid.
ReadablePids == {k \in 1..Len(ino_proc) : ino_proc[k].access = "ok"}

PassesUserFilter(k) ==
  ino_users = <<>> \/ \E u \in 1..Len(ino_users) : ino_users[u] = ino_proc[k].uid

\* The regex matches the command from its start.
MatchesFromStart(pattern, name) ==
  /\ Len(name) >= Len(pattern.literal) + (IF pattern.more THEN 1 ELSE 0)
  /\ SubSeq(name, 1, Len(pattern.literal)) = pattern.literal

RECURSIVE SumOfFds(_)
SumOfFds(pids) ==
  IF pids = {} THEN 0
  ELSE LET k == CHOOSE x \in pids : TRUE
       IN ino_proc[k].fds + SumOfFds(pids \ {k})

\* C18: inotify_user_instances{uid} is the sum of the instance counts of the
\* processes of that user that pass the user filter (no sample when it is 0).
C18_UserInstancesIsSum ==
  (ino_pc = "done" /\ ino_mode = "user") =>
    ino_samples =
      {[labels |-> <<uid>>,
        value |-> SumOfFds({k \in ReadablePids : ino_proc[k].uid = uid /\ PassesUserFilter(k)})] :
         uid \in {u \in {0, 33} :
                    \E k \in ReadablePids :
                      ino_proc[k].uid = u /\ PassesUserFilter(k) /\ ino_proc[k].fds > 0}}

\* C19: inotify_instances has a sample for a process exactly when it holds an
\* inotify fd, passes the user filter and the command filter (none, or the regex
\* matches the command from its start); its value is the number of its fds.
C19_ProcessSamples ==
  (ino_pc = "done" /\ ino_mode = "process") =>
    ino_samples =
      {[labels |-> <<k, ino_proc[k].uid, ino_proc[k].command>>, value |-> ino_proc[k].fds] :
         k \in {x \in ReadablePids :
                  /\ ino_proc[x].fds >= 1
                  /\ PassesUserFilter(x)
                  /\ ino_command = None \/ MatchesFromStart(ino_command[1], ino_proc[x].command)}}

C19_Witness ==
  /\ ino_pc = "done"
  /\ ino_mode = "process"
  /\ ino_command = Some(Pattern(<<"s", "y", "s", "t", "e", "m", "d", "-">>, TRUE))
  /\ Len(ino_proc) = 2
  /\ ino_proc[2].command = Cmd_prom /\ ino_proc[2].fds = 1 /\ ino_proc[2].access = "ok"
  /\ ino_samples = {[labels |-> <<1, 33, Cmd_systemd>>, value |-> 2]}

\* ------------------------------------------------------------------ C20
\* The path has a directory named lib above its last component.
ContainsLib(library) == \E k \in 1..Len(library) : k < Len(library) /\ library[k] = "lib"

\* The processes whose maps file (still there) has a deleted mapping of the library.
ProcessesLinkingDeleted(library) ==
  {pid \in DOMAIN lib_maps :
     \E k \in 1..Len(lib_maps[pid].lines) :
       lib_maps[pid].lines[k] = [library |-> library, comment |-> "(deleted)"]}

\* C20: for every library under a /lib/ directory that some process maps as
\* deleted, the gauge is the number of processes that map it as deleted, a process
\* with several deleted libraries counting for each of them.
C20_ProcessesPerDeletedLibrary ==
  lib_pc = "done" =>
    lib_samples =
      {[labels |-> <<SubSeq(l, 1, Len(l) - 1), l[Len(l)]>>,
        value |-> Cardinality(ProcessesLinkingDeleted(l))] :
         l \in {x \in {Lib_a, Lib_b, Bin_tool} :
                  ContainsLib(x) /\ ProcessesLinkingDeleted(x) # {}}}

\* ------------------------------------------------------------------ C21
\* The commands of one kind that were run, and the metrics of one name.
CommandsRun(cmd) == {k \in 1..Len(tw_commands) : tw_commands[k].cmd = cmd}

MetricsNamed(names) == {m \in METRICS : m.metric \in names}

\* C21: a run with -a tests only the arrays (no `show drivestatus` command, no
\* drive_status metric), a run with -d tests only the drives, and a run with
\* neither tests both, every controller's unit and drive.
C21_ArraysOnlyTestsOnlyArrays ==
  tw_pc = "exit 0" =>
    /\ tw_options.arrays_only =>
         /\ CommandsRun("show drivestatus") = {}
         /\ MetricsNamed({"drive_status"}) = {}
    /\ tw_options.drives_only =>
         /\ CommandsRun("show unitstatus") = {}
         /\ MetricsNamed({"array_info", "array_status"}) = {}
    /\ (~tw_options.arrays_only /\ ~tw_options.drives_only /\ ~tw_options.incl_info) =>
         /\ Cardinality(CommandsRun("show unitstatus")) = Len(tw_hardware)
         /\ Cardinality(CommandsRun("show drivestatus")) = Len(tw_hardware)
         /\ Cardinality(MetricsNamed({"array_status"})) = Len(tw_hardware)
         /\ Cardinality(MetricsNamed({"drive_status"})) = Len(tw_hardware)

\* ------------------------------------------------------------------ C22
\* The non-empty lines of the config value after its header line, and those of
\* them that are a `spares` header.
ConfigDeviceLines ==
  LET value == DictGet(matches, W_config)
      NonEmpty(l) == ~IsBlank(l)
  IN IF value = <<>> THEN <<>> ELSE SelectSeq(Tail(value), NonEmpty)

IsSparesHeader(l) == l.toks = <<W_spares>>

\* C22: every non-empty line of the config value after the header gives one device,
\* in input order, whatever its number of columns, but for the `spares` headers:
\* the block has as many devices as such lines that are no `spares` header, the
\* i-th device coming from the i-th of them.
C22_OneDevicePerConfigLine ==
  pc = "scan" =>
    LET NotHeader(l) == ~IsSparesHeader(l)
        lines == SelectSeq(ConfigDeviceLines, NotHeader)
    IN /\ Len(configs) = Len(lines)
       /\ \A i \in 1..Len(lines) :
            (i <= Len(configs) /\ Len(lines[i].toks) < 6) =>
              configs[i].name = lines[i].toks[1]

\* ------------------------------------------------------------------ C23
\* The first k elements of a sequence (none when k is not positive).
FirstElements(s, k) == [i \in 1..(IF k < 0 THEN 0 ELSE IF k > Len(s) THEN Len(s) ELSE k) |-> s[i]]

\* Every path is the path of the line before cut to its first (indent - root
\* indent) elements, plus the name; the first path is the name alone.
PathsFollowPredecessor(cs) ==
  \A i \in 1..Len(cs) :
    /\ cs[i].path =
         (IF i = 1 THEN <<>>
          ELSE FirstElements(cs[i - 1].path, Depth(cs[i]) - Depth(cs[1]))) \o <<cs[i].name>>
    /\ cs[i].path # <<>>
    /\ cs[i].path[Len(cs[i].path)] = cs[i].name

\* C23 as stated: whatever the indentation, each node's path is its predecessor's
\* path (a `spares` header included) cut to its first (indent - root indent)
\* elements, followed by its normalized name; every path ends with the name.
C23_PathFromPredecessor == pc = "filter" => PathsFollowPredecessor(configs)

\* No line stands at a smaller depth than the first device line.
NoneAboveRoot(cs) == \A i \in 1..Len(cs) : Depth(cs[i]) >= Depth(cs[1])

\* C23 amended: the same, for the blocks where no device line is indented less
\* than the first one.
C23_PathFromPredecessorBelowRoot ==
  (pc = "filter" /\ NoneAboveRoot(configs)) => PathsFollowPredecessor(configs)

C23_Witness ==
  /\ pc = "filter"
  /\ NoneAboveRoot(configs)
  /\ Len(configs) = 3
  /\ configs[2].name = W_spares
  /\ Depth(configs[2]) = Depth(configs[1]) + 1
  /\ Depth(configs[3]) = Depth(configs[1]) + 2
  /\ Len(configs[3].path) = 3
  /\ configs[3].path[2] = W_spares

\* ------------------------------------------------------------------ C24
\* The three error counts of a device are there together or not at all, are not
\* there without a state, and there is no comment without them.
CountsTogether(c) ==
  /\ \/ c.read = None /\ c.write = None /\ c.checksum = None
     \/ c.read # None /\ c.write # None /\ c.checksum # None
  /\ c.state = <<>> => c.read = None
  /\ c.read = None => c.comment = None

\* The devices of the block at hand that come from a line: the ones of its name.
DevicesOfLine(l) == {i \in 1..Len(configs) : configs[i].name = l.toks[1]}

\* C24: read, write and checksum of every returned device are all integers or all
\* None, None when the state is empty, and the comment is None when they are; a
\* line of a name alone gives state '' and no counts, a line of a name and a state
\* gives that state and no counts.
C24_CountsAllOrNone ==
  /\ \A k \in 1..Len(statuses) :
       \A i \in 1..Len(statuses[k].configs) : CountsTogether(statuses[k].configs[i])
  /\ pc = "scan" =>
       \A n \in 1..Len(ConfigDeviceLines) :
         LET l == ConfigDeviceLines[n]
         IN (Len(l.toks) \in {1, 2} /\ ~IsSparesHeader(l)) =>
              /\ DevicesOfLine(l) # {}
              /\ \A i \in DevicesOfLine(l) :
                   /\ configs[i].state = (IF Len(l.toks) = 2 THEN l.toks[2] ELSE <<>>)
                   /\ configs[i].read = None
                   /\ configs[i].write = None
                   /\ configs[i].checksum = None
                   /\ configs[i].comment = None

C24_Witness ==
  /\ pc = "returned"
  /\ Len(statuses) = 1
  /\ Len(statuses[1].configs) = 3
  /\ statuses[1].configs[1].read = Some(0)
  /\ statuses[1].configs[2].state = W_AVAIL
  /\ statuses[1].configs[2].read = None
  /\ statuses[1].configs[3].comment # None

\* ------------------------------------------------------------------ C25
\* The samples named of a pool in the registry.
PoolSamples(metric, name) ==
  {s \in zs_registry : s.metric = metric /\ s.labels[1] = name}

\* The activity of a pool has its three gauges, labelled with the pool name.
ActivityGauges(activity, status) ==
  \A gauge \in {"duration", "corrected", "time"} :
    Cardinality(PoolSamples(<<activity, gauge>>, status.name)) = 1

\* C25: when zpool_status has ended, every pool of the list has its zfs_zpool_status
\* sample, the three gauges of its scrub and of its resilvering when it has one,
\* and one zpool_vdev_info sample per device, whether or not it has a scan event.
C25_EveryPoolHasItsMetrics ==
  zs_pc \in {"returned", "raised"} =>
    \A k \in 1..Len(zs_statuses) :
      LET status == zs_statuses[k]
      IN /\ Cardinality(PoolSamples(<<"status">>, status.name)) = 1
         /\ status.scrub # None => ActivityGauges("scrub", status)
         /\ status.resilvering # None => ActivityGauges("resilvering", status)
         /\ Cardinality(PoolSamples(<<"vdev_info">>, status.name)) = Len(status.configs)

\* ------------------------------------------------------------------ C26
\* Every function main submits has ended.
AllTerminated ==
  /\ submitted = Len(funcs)
  /\ \A i \in 1..Len(funcs) : futures[i] \in {"done", "raised"}

\* C26: under every interleaving of the workers, main generates and prints the
\* registry only after each of the five submitted functions has returned or
\* raised; and a submitted function never waits for another one to end, a worker
\* being free for each.
C26_PrintAfterAllGroups ==
  /\ main_pc \in {"print", "end"} => AllTerminated
  /\ printed # <<>> => (main_pc = "end" /\ AllTerminated)
  /\ \A i \in 1..Len(funcs) : futures[i] = "pending" => ENABLED Run(i)

C26_Witness ==
  /\ main_pc = "submit"
  /\ Len(funcs) = 5
  /\ \A i \in 1..Len(funcs) : futures[i] = "running"

\* ------------------------------------------------------------------ C27
\* The processes that are there during the whole scan, and the records yielded
\* for a pid.
StayingPids == {k \in 1..Len(gp_proc) : gp_proc[k].fate = "alive"}

YieldedFor(k) == {n \in 1..Len(gp_yielded) : gp_yielded[n].pid = k}

\* The inotify instances among the fds of a process that are still there.
InstancesOf(k) ==
  Cardinality({j \in 1..Len(gp_proc[k].fds) : gp_proc[k].fds[j] = "anon_inode:inotify"})

\* C27: whenever the scan of /proc ends, no exception has left the generator, a
\* process that went away at any point of the scan or may not be read has no
\* record, and every other process has exactly one, which counts its inotify fds
\* without the fds that vanished between the listing and readlink.
C27_VanishedProcessSkipped ==
  gp_pc \in {"done", "raised"} =>
    /\ gp_exc = "none"
    /\ \A k \in 1..Len(gp_proc) :
         IF k \in StayingPids
         THEN /\ Cardinality(YieldedFor(k)) = 1
              /\ \A n \in YieldedFor(k) : gp_yielded[n].inotify_instances = InstancesOf(k)
         ELSE YieldedFor(k) = {}

\* ------------------------------------------------------------------ C28
\* The commands run against a device and the metrics set for it.
CommandsAgainst(k) ==
  {sm_commands[n].args : n \in {m \in 1..Len(sm_commands) : sm_commands[m].device = k}}

MetricsOf(k) == {[metric |-> x.metric, value |-> x.value] : x \in {y \in sm_metrics : y.device = k}}

\* C28: with wakeup_disks false, at every moment of the collection the only
\* command run against a device found not active is the `--nocheck standby` probe
\* and the only metric set for it is device_active = 0; and the collection goes on
\* to the devices after it, each of which is probed.
C28_StandbyDeviceLeftAlone ==
  /\ \A k \in 1..Len(sm_devices) :
       (~sm_wakeup_disks /\ ~sm_devices[k].active) =>
         /\ CommandsAgainst(k) \subseteq {"--nocheck standby"}
         /\ MetricsOf(k) \subseteq {[metric |-> "device_active", value |-> 0]}
  /\ sm_pc = "done" =>
       \A k \in 1..Len(sm_devices) :
         /\ "--nocheck standby" \in CommandsAgainst(k)
         /\ \E x \in MetricsOf(k) : x.metric = "device_active"

C28_Witness ==
  /\ sm_pc = "done"
  /\ ~sm_wakeup_disks
  /\ Len(sm_devices) = 2
  /\ ~sm_devices[1].active
  /\ CommandsAgainst(1) = {"--nocheck standby"}
  /\ MetricsOf(1) = {[metric |-> "device_active", value |-> 0]}
  /\ "-l xerror,1" \in CommandsAgainst(2)

\* ------------------------------------------------------------------ C29
\* A command that was run and whose first controller did not report Success.
FailedCommands ==
  {n \in 1..Len(st_run) : st_outputs[n].status # "Success"}

\* C29: when the storcli path is no executable file, the script ends with status 1
\* and no command was run; when a command's first controller reports a status
\* other than Success, the script ends with status 1 without handing its data to
\* main; in both cases no metric is printed.
C29_ExitOneOnMissingOrFailed ==
  st_pc = "exited" =>
    /\ storcli_path # "executable file" =>
         (st_exit = "1" /\ st_run = <<>> /\ st_printed = {})
    /\ FailedCommands # {} =>
         (st_exit = "1" /\ st_printed = {} /\ Len(st_run) = 1)

\* ------------------------------------------------------------------ C30
\* The rows of a dataset, and the ones of its last run of adjacent rows.
RowsOf(key) == {n \in 1..Len(sn_rows) : RowKey(sn_rows[n]) = key}

LastRunOf(key) ==
  {n \in RowsOf(key) :
     \E last \in RowsOf(key) :
       /\ \A m \in RowsOf(key) : m <= last
       /\ \A m \in n..last : m \in RowsOf(key)}

RECURSIVE SumUsed(_)
SumUsed(ns) ==
  IF ns = {} THEN 0
  ELSE LET n == CHOOSE x \in ns : TRUE IN sn_rows[n].used + SumUsed(ns \ {n})

MaxCreation(ns) == CHOOSE c \in {sn_rows[n].creation : n \in ns} :
                     \A n \in ns : sn_rows[n].creation <= c

\* The two gauges of every dataset are the sum of used and the latest creation of
\* the rows picked for it.
GaugesAre(Picked(_)) ==
  \A key \in {RowKey(sn_rows[n]) : n \in 1..Len(sn_rows)} :
    /\ {x \in space_used_metric : x.labels = key}
         = {[labels |-> key, value |-> SumUsed(Picked(key))]}
    /\ {x \in latest_time_metric : x.labels = key}
         = {[labels |-> key, value |-> MaxCreation(Picked(key))]}

\* C30 as stated: in whatever order the rows arrive, the gauges of a dataset are
\* the sum of used and the maximum of creation over all of its snapshots.
C30_AggregatesAnyOrder == sn_pc = "done" => GaugesAre(RowsOf)

\* The rows of every dataset are adjacent.
RowsAdjacent ==
  \A n \in 1..Len(sn_rows) : \A m \in n..Len(sn_rows) :
    RowKey(sn_rows[n]) = RowKey(sn_rows[m]) =>
      \A l \in n..m : RowKey(sn_rows[l]) = RowKey(sn_rows[n])

\* C30 amended: the gauges of a dataset are the sum and the maximum over its last
\* run of adjacent rows, which is all of its snapshots when its rows are adjacent.
C30_AggregatesOfLastRun ==
  sn_pc = "done" =>
    /\ GaugesAre(LastRunOf)
    /\ RowsAdjacent => GaugesAre(RowsOf)

C30_Witness ==
  /\ sn_pc = "done"
  /\ RowsAdjacent
  /\ Len(sn_rows) = 3
  /\ Cardinality(RowsOf(<<"p", "/a">>)) = 2
  /\ [labels |-> <<"p", "/a">>, value |-> 3] \in space_used_metric
  /\ [labels |-> <<"p", "/a">>, value |-> 2] \in latest_time_metric
  /\ [labels |-> <<"p", "/b">>, value |-> 1] \in space_used_metric
====
